---------------------------- MODULE Spec2Model ----------------------------
(***************************************************************************)
(* A model of the streaming-response core of the voice avatar backend:     *)
(*   - TTSTaskManager (conversations/tts_manager.py): pre-filter, single   *)
(*     mode with sequence numbers, merge mode with the progressive buffer; *)
(*   - process_single_conversation / finalize_conversation_turn: one turn; *)
(*   - handle_conversation_trigger / handle_individual_interrupt: the      *)
(*     per-client task table;                                              *)
(*   - StepTTSRateLimiter / TTSEngine (tts/step_tts.py): the async mutex,  *)
(*     the sliding window and the retry loop;                              *)
(*   - the time-slicing arithmetic of a merge flush.                       *)
(* Each part has its own specification over its own group of variables;    *)
(* the other groups are frozen at an idle value.                           *)
(***************************************************************************)
EXTENDS Integers, Sequences, FiniteSets, TLC

(***************************************************************************)
(* Bounds of the model.                                                    *)
(***************************************************************************)
\* Longest agent output stream (sentences per turn) explored under Spec.
MaxSentences == 3
\* Length of the stream A..G of the merge-ramp scenario (SpecRamp).
RampSentences == 7

(***************************************************************************)
(* Texts.  A text is a sequence of tokens; "[e]" stands for one bracketed  *)
(* emotion tag such as [joy] (the regex \[\w+\] matches it as a whole).    *)
(***************************************************************************)
Whitespace == {" ", "\n"}

RECURSIVE LStrip(_)
LStrip(t) == IF t # <<>> /\ Head(t) \in Whitespace THEN LStrip(Tail(t)) ELSE t

RECURSIVE RStrip(_)
RStrip(t) ==
    IF t # <<>> /\ t[Len(t)] \in Whitespace
    THEN RStrip(SubSeq(t, 1, Len(t) - 1))
    ELSE t

\* str.strip()
Strip(t) == RStrip(LStrip(t))

\* str.startswith('#')
StartsWithHash(t) == t # <<>> /\ Head(t) = "#"

\* TTSTaskManager._is_title_content
is_title_content(text) == StartsWithHash(Strip(text))

\* re.sub(r'\[\w+\]', '', text)
SubEmotionTags(text) == SelectSeq(text, LAMBDA c : c # "[e]")

\* TTSTaskManager._is_emotion_tag_only
is_emotion_tag_only(text) ==
    /\ Len(Strip(SubEmotionTags(text))) = 0
    /\ \E i \in DOMAIN text : text[i] = "[e]"

\* TTSTaskManager._remove_emotion_tags
remove_emotion_tags(text) == Strip(SubEmotionTags(text))

\* text.split('\n')
RECURSIVE SplitLines(_, _)
SplitLines(t, cur) ==
    IF t = <<>> THEN <<cur>>
    ELSE IF Head(t) = "\n" THEN <<cur>> \o SplitLines(Tail(t), <<>>)
    ELSE SplitLines(Tail(t), Append(cur, Head(t)))

\* '\n'.join(lines)
RECURSIVE JoinLines(_)
JoinLines(ls) ==
    IF ls = <<>> THEN <<>>
    ELSE IF Len(ls) = 1 THEN ls[1]
    ELSE ls[1] \o <<"\n">> \o JoinLines(Tail(ls))

\* TTSTaskManager._filter_title_lines
filter_title_lines(text) ==
    Strip(JoinLines(SelectSeq(SplitLines(text, <<>>),
                              LAMBDA l : ~StartsWithHash(Strip(l)))))

\* The character class of the pure-punctuation test in speak().
PunctClass == Whitespace \cup {".", ",", "!", "?", "'"}

\* len(re.sub(r'[\s.,!?...]+', "", text)) == 0
IsPurePunctuation(text) == \A i \in DOMAIN text : text[i] \in PunctClass

(***************************************************************************)
(* Sentence outputs handed to speak(): (tts_text, display_text.text).      *)
(***************************************************************************)
Plain       == [tts |-> <<"a">>,         display |-> <<"a">>]
Heading     == [tts |-> <<" ", "#", "a">>, display |-> <<"#", "a">>]
ShowHeading == [tts |-> <<"a">>,         display |-> <<"#", "a">>]
EmotionOnly == [tts |-> <<"[e]">>,       display |-> <<"[e]">>]
Tagged      == [tts |-> <<"[e]", "a">>,  display |-> <<"a">>]
Silent      == [tts |-> <<".", " ">>,    display |-> <<"a", ".">>]

SentenceKinds == {Plain, Heading, ShowHeading, EmotionOnly, Silent}

\* Merge-eligible sentences of the ramp scenario.
RampKinds == {Plain, Tagged}

\* The text speak() hands on after its filters (filtered_tts_text).
filtered_tts_text(s) == filter_title_lines(remove_emotion_tags(s.tts))

\* The heading test with the display text forgotten.
IsTitle_tts_only(s) == is_title_content(s.tts)

\* speak(): first filter, the heading test on either text.
IsTitle(s) == is_title_content(s.tts) \/ is_title_content(s.display)

\* speak(): the sentence is answered with a display-only payload.
IsDisplayOnly(s) ==
    \/ IsTitle(s)
    \/ /\ ~is_emotion_tag_only(s.tts)
       /\ \/ Strip(filtered_tts_text(s)) = <<>>
          \/ IsPurePunctuation(filtered_tts_text(s))

\* speak(): the sentence is dropped (no display, no audio).
IsDropped(s) == ~IsTitle(s) /\ is_emotion_tag_only(s.tts)

\* speak(): the sentence reaches _speak_with_merge or _speak_single.
IsSpoken(s) == ~IsDisplayOnly(s) /\ ~IsDropped(s)


(***************************************************************************)
(* State.                                                                  *)
(***************************************************************************)
VARIABLES
    \* ---- one conversation turn and its TTSTaskManager ----
    agent_stream,                \* the sentence outputs agent_engine.chat yields
    stream_pos,                  \* how many of them the turn has consumed
    merge_enabled,               \* result of _should_merge_audio
    merge_max_sentences,         \* TTSTaskManager._merge_max_sentences
    progressive_merge_enabled,   \* TTSTaskManager._progressive_merge_enabled
    pc,                          \* position of process_single_conversation
    cancel_requested,            \* task.cancel() was called on the turn's task
    sent,                        \* messages handed to websocket_send, in order
    sequence_counter,            \* TTSTaskManager._sequence_counter
    next_sequence_to_send,       \* TTSTaskManager._next_sequence_to_send
    payload_queue,               \* TTSTaskManager._payload_queue
    sender_task,                 \* TTSTaskManager._sender_task and its buffered_payloads
    tts_tasks,                   \* every asyncio task running _process_tts
    task_list,                   \* TTSTaskManager.task_list (indices of tts_tasks)
    merge_buffer,                \* TTSTaskManager._merge_buffer (sentence numbers)
    progressive_sentence_count,  \* TTSTaskManager._progressive_sentence_count
    current_round_max,           \* TTSTaskManager._current_round_max
    flush,                       \* the running _flush_merge_buffer call
    tts_calls,                   \* history: sentences of each async_generate_audio call
    flushes,                     \* history: buffer_copy of each flush
    ack,                         \* the wait for frontend-playback-complete
    \* ---- the conversation handler of one client ----
    current_conversation_tasks,  \* current_conversation_tasks[client_uid]
    conversation_tasks,          \* every turn task the handler created
    received_data_buffers,       \* received_data_buffers[client_uid]
    handler,                     \* the running handler coroutine
    handler_sent,                \* messages the handler sent, in order
    \* ---- the Step TTS engine and its global rate limiter ----
    now,                         \* time.time(), in half seconds
    request_times,               \* StepTTSRateLimiter.request_times
    async_lock,                  \* StepTTSRateLimiter.async_lock
    callers,                     \* the coroutines calling async_generate_audio
    workers,                     \* the threads running generate_audio
    http_starts,                 \* history: start time of every requests.post
    cancels,                     \* history: how many callers were cancelled
    \* ---- the payload loop of one merge flush ----
    char_counts,                 \* char_counts of the flush
    total_duration_ms,           \* get_audio_duration of the merged audio
    loop_i,                      \* i of the for loop (payloads sent so far)
    current_time_offset,         \* current_time_offset
    merge_infos,                 \* merge_info of each payload sent
    \* ---- the input stage of one conversation turn ----
    turn_input,                  \* user_input of process_single_conversation
    wake_word_config,            \* wake_word_config of the turn
    metadata,                    \* metadata of the turn
    history_uid,                 \* context.history_uid is set
    input_pc,                    \* position of the turn in its input stage
    transcript,                  \* what async_transcribe_np returned
    input_text,                  \* input_text of process_single_conversation
    input_sent,                  \* messages handed to websocket_send, in order
    agent_calls,                 \* history: batch inputs given to agent_engine.chat
    history,                     \* messages store_message wrote
    \* ---- the sentence divider and the stages after it ----
    segment_stream,              \* the items of segment_stream
    stream_index,                \* how many of them process_stream has taken
    faster_first_response,       \* SentenceDivider.faster_first_response
    dual_stream_mode,            \* SentenceDivider.dual_stream_mode
    divider_buffer,              \* SentenceDivider._buffer
    tag_stack,                   \* SentenceDivider._tag_stack
    is_first_sentence,           \* SentenceDivider._is_first_sentence
    emitted,                     \* what process_stream yielded, in order
    flushed,                     \* the stream ended and the buffer was flushed
    sentence_outputs             \* what the tts_filter stage yielded, in order

turnVars == <<agent_stream, stream_pos, merge_enabled, merge_max_sentences,
              progressive_merge_enabled, pc, cancel_requested, sent,
              sequence_counter, next_sequence_to_send, payload_queue,
              sender_task, tts_tasks, task_list, merge_buffer,
              progressive_sentence_count, current_round_max, flush,
              tts_calls, flushes, ack>>

ctlVars == <<current_conversation_tasks, conversation_tasks,
             received_data_buffers, handler, handler_sent>>

rateVars == <<now, request_times, async_lock, callers, workers, http_starts,
              cancels>>

durVars == <<char_counts, total_duration_ms, loop_i, current_time_offset,
             merge_infos>>

inputVars == <<turn_input, wake_word_config, metadata, history_uid, input_pc,
               transcript, input_text, input_sent, agent_calls, history>>

divVars == <<segment_stream, stream_index, faster_first_response,
             dual_stream_mode, divider_buffer, tag_stack, is_first_sentence,
             emitted,
             flushed,
             sentence_outputs>>

vars == <<turnVars, ctlVars, rateVars, durVars, inputVars, divVars>>

(***************************************************************************)
(* Messages.                                                               *)
(***************************************************************************)
\* An audio payload for sentence sid; audio = FALSE is a silent payload.
AudioPayload(sid, audio, merged) ==
    [type |-> "audio", sid |-> sid, audio |-> audio, merged |-> merged]

\* Any other message to the client.
Message(type) == [type |-> type, sid |-> 0, audio |-> FALSE, merged |-> FALSE]

NoFlush == [copy |-> <<>>, idx |-> 0, ret |-> "none"]
\* sent_seqs is a history: the sequence numbers of the payloads the sender
\* handed to websocket_send, in order.
NoSender == [st |-> "none", pc |-> "get", buffered |-> {}, sent_seqs |-> <<>>]
\* asyncio.create_task(self._process_payload_queue(websocket_send))
NewSender ==
    [st |-> "running", pc |-> "get", buffered |-> {}, sent_seqs |-> <<>>]

\* All sequences over S of length at most n.
SeqsUpTo(S, n) == UNION {[1..k -> S] : k \in 0..n}

(***************************************************************************)
(* TTSTaskManager.                                                         *)
(***************************************************************************)
\* __init__
TTSTaskManagerInit ==
    /\ sequence_counter = 0
    /\ next_sequence_to_send = 0
    /\ payload_queue = <<>>
    /\ sender_task = NoSender
    /\ tts_tasks = <<>>
    /\ task_list = <<>>
    /\ merge_buffer = <<>>
    /\ progressive_sentence_count = 0
    /\ current_round_max = 1
    /\ flush = NoFlush

\* _send_display_only for each sentence of sids in turn: a sequence number
\* each, the sender task started when there is none, a silent payload queued
\* (_send_silent_payload).  put() on the unbounded queue does not suspend.
send_display_only(sids) ==
    /\ payload_queue' = payload_queue \o
           [i \in 1..Len(sids) |->
               [payload |-> AudioPayload(sids[i], FALSE, FALSE),
                seq |-> sequence_counter + i - 1]]
    /\ sequence_counter' = sequence_counter + Len(sids)
    /\ sender_task' = IF sender_task.st = "running" \/ sids = <<>>
                      THEN sender_task
                      ELSE NewSender

\* _flush_merge_buffer up to its first suspension: the buffer is copied and
\* cleared and async_generate_audio is called on the merged text.
begin_flush(buffer, ret) ==
    /\ flush' = [copy |-> buffer, idx |-> 0, ret |-> ret]
    /\ merge_buffer' = <<>>
    /\ tts_calls' = Append(tts_calls, buffer)
    /\ flushes' = Append(flushes, buffer)
    /\ pc' = "flush_synth"

\* A round size without the progressive ramp.
round_max_no_ramp(count) == merge_max_sentences

\* A round size taken from the count before the sentence was counted.
round_max_before_count(count) ==
    IF progressive_merge_enabled
    THEN IF count - 1 < merge_max_sentences THEN count - 1
         ELSE merge_max_sentences
    ELSE merge_max_sentences

\* The size a new merge round locks (_speak_with_merge, buffer empty).
round_max(count) ==
    IF progressive_merge_enabled
    THEN IF count < merge_max_sentences THEN count ELSE merge_max_sentences
    ELSE merge_max_sentences

\* _speak_with_merge
speak_with_merge(sid) ==
    LET count == progressive_sentence_count + 1
        max == IF Len(merge_buffer) = 0 THEN round_max(count)
               ELSE current_round_max
        buffer == Append(merge_buffer, sid)
    IN /\ progressive_sentence_count' = count
       /\ current_round_max' = max
       /\ IF Len(buffer) >= max
          THEN begin_flush(buffer, "stream")
          ELSE /\ merge_buffer' = buffer
               /\ pc' = "stream"
               /\ UNCHANGED <<flush, tts_calls, flushes>>
       /\ UNCHANGED <<sequence_counter, payload_queue, sender_task,
                      tts_tasks, task_list>>

\* _speak_single: a sequence number, the sender task, a _process_tts task.
speak_single(sid) ==
    /\ sequence_counter' = sequence_counter + 1
    /\ sender_task' = IF sender_task.st = "running" THEN sender_task
                      ELSE NewSender
    /\ tts_tasks' = Append(tts_tasks,
           [sid |-> sid, seq |-> sequence_counter, st |-> "running"])
    /\ task_list' = Append(task_list, Len(tts_tasks) + 1)
    /\ tts_calls' = Append(tts_calls, <<sid>>)
    /\ pc' = "stream"
    /\ UNCHANGED <<payload_queue, merge_buffer, progressive_sentence_count,
                   current_round_max, flush, flushes>>

\* speak
speak(s, sid) ==
    IF IsTitle(s)
    THEN /\ send_display_only(<<sid>>)
         /\ pc' = "stream"
         /\ UNCHANGED <<tts_tasks, task_list, merge_buffer,
                        progressive_sentence_count, current_round_max,
                        flush, tts_calls, flushes>>
    ELSE IF is_emotion_tag_only(s.tts)
    THEN /\ pc' = "stream"
         /\ UNCHANGED <<sequence_counter, payload_queue, sender_task,
                        tts_tasks, task_list, merge_buffer,
                        progressive_sentence_count, current_round_max,
                        flush, tts_calls, flushes>>
    ELSE IF \/ Strip(filtered_tts_text(s)) = <<>>
            \/ IsPurePunctuation(filtered_tts_text(s))
    THEN /\ send_display_only(<<sid>>)
         /\ pc' = "stream"
         /\ UNCHANGED <<tts_tasks, task_list, merge_buffer,
                        progressive_sentence_count, current_round_max,
                        flush, tts_calls, flushes>>
    ELSE IF merge_enabled
    THEN speak_with_merge(sid)
    ELSE speak_single(sid)

\* clear
clear ==
    /\ task_list' = <<>>
    /\ sender_task' = IF sender_task.st = "none" THEN sender_task
                      ELSE [sender_task EXCEPT !.st = "cancelled",
                                               !.pc = "get",
                                               !.buffered = {}]
    /\ sequence_counter' = 0
    /\ next_sequence_to_send' = 0
    /\ payload_queue' = <<>>
    /\ merge_buffer' = <<>>

(***************************************************************************)
(* The sender task, _process_payload_queue.                                *)
(***************************************************************************)
BufferedSeqs == {b.seq : b \in sender_task.buffered}

\* A sender that sends every payload as it takes it from the queue.
send_as_received(seq) == TRUE

\* "while self._next_sequence_to_send in buffered_payloads", for the payload
\* just taken from the queue.
is_next_to_send(seq) == seq = next_sequence_to_send

\* The sender is ready to run and has not yet handed its next payload to the
\* socket: the event loop runs it before it resumes a coroutine whose await
\* completes later (a worker thread's result, a gather, a client message).
SenderMustRun ==
    /\ sender_task.st = "running"
    /\ sender_task.pc = "get"
    /\ payload_queue # <<>>

\* payload_queue.get(), buffered_payloads[sequence_number] = payload, and the
\* first pass of the inner while loop up to its await websocket_send.
SenderGet ==
    /\ sender_task.st = "running"
    /\ \/ sender_task.pc = "get"
       \/ sender_task.pc = "send" /\ next_sequence_to_send \notin BufferedSeqs
    /\ payload_queue # <<>>
    /\ LET item == Head(payload_queue)
       IN /\ payload_queue' = Tail(payload_queue)
          /\ IF is_next_to_send(item.seq)
             THEN /\ sent' = Append(sent, item.payload)
                  /\ next_sequence_to_send' = next_sequence_to_send + 1
                  /\ sender_task' =
                         [sender_task EXCEPT
                              !.pc = "send",
                              !.sent_seqs = Append(@, item.seq)]
             ELSE /\ sender_task' =
                         [sender_task EXCEPT !.pc = "get",
                                             !.buffered = @ \cup {item}]
                  /\ UNCHANGED <<sent, next_sequence_to_send>>
    /\ UNCHANGED <<ctlVars, rateVars, durVars, inputVars, divVars>>
    /\ UNCHANGED <<agent_stream, stream_pos, merge_enabled, merge_max_sentences,
                   progressive_merge_enabled, pc, cancel_requested,
                   sequence_counter, tts_tasks, task_list, merge_buffer,
                   progressive_sentence_count, current_round_max, flush,
                   tts_calls, flushes, ack>>

\* The inner while loop: pop _next_sequence_to_send, send it, count on.
SenderDrain ==
    /\ sender_task.st = "running"
    /\ sender_task.pc = "send"
    /\ next_sequence_to_send \in BufferedSeqs
    /\ LET item == CHOOSE b \in sender_task.buffered :
                       b.seq = next_sequence_to_send
       IN /\ sent' = Append(sent, item.payload)
          /\ sender_task' =
                 [sender_task EXCEPT !.buffered = @ \ {item},
                                     !.sent_seqs = Append(@, item.seq)]
    /\ next_sequence_to_send' = next_sequence_to_send + 1
    /\ UNCHANGED <<ctlVars, rateVars, durVars, inputVars, divVars>>
    /\ UNCHANGED <<agent_stream, stream_pos, merge_enabled, merge_max_sentences,
                   progressive_merge_enabled, pc, cancel_requested,
                   sequence_counter, payload_queue, tts_tasks, task_list,
                   merge_buffer, progressive_sentence_count, current_round_max,
                   flush, tts_calls, flushes, ack>>

(***************************************************************************)
(* A synthesis task, _process_tts: the engine returns a file (ok) or fails *)
(* (None or an exception); either way a payload is queued under the task's *)
(* sequence number.                                                        *)
(***************************************************************************)
TtsTaskFinish(i, ok) ==
    /\ i \in DOMAIN tts_tasks
    /\ tts_tasks[i].st = "running"
    /\ tts_tasks' = [tts_tasks EXCEPT ![i].st = "done"]
    /\ payload_queue' = Append(payload_queue,
           [payload |-> AudioPayload(tts_tasks[i].sid, ok, FALSE),
            seq |-> tts_tasks[i].seq])
    /\ UNCHANGED <<ctlVars, rateVars, durVars, inputVars, divVars>>
    /\ UNCHANGED <<agent_stream, stream_pos, merge_enabled, merge_max_sentences,
                   progressive_merge_enabled, pc, cancel_requested, sent,
                   sequence_counter, next_sequence_to_send, sender_task,
                   task_list, merge_buffer, progressive_sentence_count,
                   current_round_max, flush, tts_calls, flushes, ack>>

(***************************************************************************)
(* One turn: process_single_conversation and finalize_conversation_turn.   *)
(* Every pc value is an await of the coroutine; an action is the code that *)
(* runs from one await to the next.                                        *)
(***************************************************************************)
cfgVars == <<agent_stream, merge_enabled, merge_max_sentences,
             progressive_merge_enabled>>

mgrVars == <<sequence_counter, next_sequence_to_send, payload_queue,
             sender_task, tts_tasks, task_list, merge_buffer,
             progressive_sentence_count, current_round_max, flush,
             tts_calls, flushes>>

Running == pc \notin {"done", "cancelled"} /\ ~cancel_requested

\* send_conversation_start_signals: conversation-chain-start
SendChainStart ==
    /\ Running /\ pc = "start"
    /\ sent' = Append(sent, Message("conversation-chain-start"))
    /\ pc' = "thinking"
    /\ UNCHANGED <<ctlVars, rateVars, durVars, inputVars, divVars>>
    /\ UNCHANGED <<cfgVars, mgrVars, stream_pos, cancel_requested, ack>>

\* send_conversation_start_signals: full-text "Thinking..."
SendThinking ==
    /\ Running /\ pc = "thinking"
    /\ sent' = Append(sent, Message("full-text"))
    /\ pc' = "stream"
    /\ UNCHANGED <<ctlVars, rateVars, durVars, inputVars, divVars>>
    /\ UNCHANGED <<cfgVars, mgrVars, stream_pos, cancel_requested, ack>>

\* The async for loop receives a SentenceOutput: process_agent_output,
\* handle_sentence_output, tts_manager.speak.
AgentYield ==
    /\ Running /\ pc = "stream"
    /\ stream_pos < Len(agent_stream)
    /\ stream_pos' = stream_pos + 1
    /\ speak(agent_stream[stream_pos + 1], stream_pos + 1)
    /\ UNCHANGED <<ctlVars, rateVars, durVars, inputVars, divVars>>
    /\ UNCHANGED <<cfgVars, cancel_requested, sent, next_sequence_to_send, ack>>

\* The agent's stream is exhausted.
AgentEnd ==
    /\ Running /\ pc = "stream"
    /\ stream_pos = Len(agent_stream)
    /\ pc' = "flush_remaining"
    /\ UNCHANGED <<ctlVars, rateVars, durVars, inputVars, divVars>>
    /\ UNCHANGED <<cfgVars, mgrVars, stream_pos, cancel_requested, sent, ack>>

\* The agent's stream raises: the error message is sent and the turn goes on
\* to its end.
AgentRaise ==
    /\ Running /\ pc = "stream"
    /\ sent' = Append(sent, Message("error"))
    /\ pc' = "flush_remaining"
    /\ UNCHANGED <<ctlVars, rateVars, durVars, inputVars, divVars>>
    /\ UNCHANGED <<cfgVars, mgrVars, stream_pos, cancel_requested, ack>>

\* tts_manager.flush_remaining
FlushRemaining ==
    /\ Running /\ pc = "flush_remaining"
    /\ IF merge_buffer # <<>>
       THEN begin_flush(merge_buffer, "gather")
       ELSE /\ pc' = "gather"
            /\ UNCHANGED <<merge_buffer, flush, tts_calls, flushes>>
    /\ UNCHANGED <<ctlVars, rateVars, durVars, inputVars, divVars>>
    /\ UNCHANGED <<cfgVars, stream_pos, cancel_requested, sent,
                   sequence_counter, next_sequence_to_send, payload_queue,
                   sender_task, tts_tasks, task_list,
                   progressive_sentence_count, current_round_max, ack>>

\* A flush whose every payload carries the merged audio.
merged_payload_all_audio(copy, i) == AudioPayload(copy[i], TRUE, TRUE)

\* The payload of sentence i of a flush (lines 352-389): the first carries
\* the merged audio, the others "audio": None.
merged_payload(copy, i) == AudioPayload(copy[i], i = 1, TRUE)

\* _flush_merge_buffer: the merged synthesis returned a file and the audio
\* was read; the first payload, with the audio, is sent.
FlushSynthOk ==
    /\ Running /\ pc = "flush_synth"
    /\ ~SenderMustRun
    /\ sent' = Append(sent, merged_payload(flush.copy, 1))
    /\ IF Len(flush.copy) = 1
       THEN pc' = flush.ret /\ flush' = NoFlush
       ELSE pc' = "flush_send" /\ flush' = [flush EXCEPT !.idx = 2]
    /\ UNCHANGED <<ctlVars, rateVars, durVars, inputVars, divVars>>
    /\ UNCHANGED <<cfgVars, stream_pos, cancel_requested, sequence_counter,
                   next_sequence_to_send, payload_queue, sender_task,
                   tts_tasks, task_list, merge_buffer,
                   progressive_sentence_count, current_round_max, tts_calls,
                   flushes, ack>>

\* _flush_merge_buffer: the merged synthesis failed, or reading the audio
\* failed: a display-only payload for every buffered sentence.
FlushSynthFail ==
    /\ Running /\ pc = "flush_synth"
    /\ ~SenderMustRun
    /\ send_display_only(flush.copy)
    /\ pc' = flush.ret
    /\ flush' = NoFlush
    /\ UNCHANGED <<ctlVars, rateVars, durVars, inputVars, divVars>>
    /\ UNCHANGED <<cfgVars, stream_pos, cancel_requested, sent,
                   next_sequence_to_send, tts_tasks, task_list, merge_buffer,
                   progressive_sentence_count, current_round_max, tts_calls,
                   flushes, ack>>

\* _flush_merge_buffer: payloads 2..N of the flush, without audio.
FlushSend ==
    /\ Running /\ pc = "flush_send"
    /\ sent' = Append(sent, merged_payload(flush.copy, flush.idx))
    /\ IF flush.idx = Len(flush.copy)
       THEN pc' = flush.ret /\ flush' = NoFlush
       ELSE pc' = pc /\ flush' = [flush EXCEPT !.idx = @ + 1]
    /\ UNCHANGED <<ctlVars, rateVars, durVars, inputVars, divVars>>
    /\ UNCHANGED <<cfgVars, stream_pos, cancel_requested, sequence_counter,
                   next_sequence_to_send, payload_queue, sender_task,
                   tts_tasks, task_list, merge_buffer,
                   progressive_sentence_count, current_round_max, tts_calls,
                   flushes, ack>>

\* _flush_merge_buffer: building or sending payload flush.idx of the flush
\* raises (lines 338-391) after the payloads before it were sent: the except
\* clause of lines 394-398 sends a display-only payload for every sentence
\* of the flush.
FlushSendFail ==
    /\ Running /\ pc = "flush_send"
    /\ send_display_only(flush.copy)
    /\ pc' = flush.ret
    /\ flush' = NoFlush
    /\ UNCHANGED <<ctlVars, rateVars, durVars, inputVars, divVars>>
    /\ UNCHANGED <<cfgVars, stream_pos, cancel_requested, sent,
                   next_sequence_to_send, tts_tasks, task_list, merge_buffer,
                   progressive_sentence_count, current_round_max, tts_calls,
                   flushes, ack>>

TasksDone == \A k \in DOMAIN task_list : tts_tasks[task_list[k]].st = "done"

\* process_single_conversation: "if tts_manager.task_list: gather, send
\* backend-synth-complete".  The turn is suspended only when there is a task
\* to gather: with an empty task_list it goes on without the event loop
\* having run the sender.
Gather ==
    /\ Running /\ pc = "gather"
    /\ task_list # <<>> => ~SenderMustRun
    /\ TasksDone
    /\ sent' = IF task_list # <<>>
               THEN Append(sent, Message("backend-synth-complete"))
               ELSE sent
    /\ pc' = "finalize"
    /\ UNCHANGED <<ctlVars, rateVars, durVars, inputVars, divVars>>
    /\ UNCHANGED <<cfgVars, mgrVars, stream_pos, cancel_requested, ack>>

\* finalize_conversation_turn: "if tts_manager.task_list: gather, send
\* backend-synth-complete, wait_for_response".
Finalize ==
    /\ Running /\ pc = "finalize"
    /\ IF task_list # <<>>
       THEN /\ sent' = Append(sent, Message("backend-synth-complete"))
            /\ pc' = "wait_ack"
            /\ ack' = "waiting"
       ELSE /\ pc' = "force_new"
            /\ UNCHANGED <<sent, ack>>
    /\ UNCHANGED <<ctlVars, rateVars, durVars, inputVars, divVars>>
    /\ UNCHANGED <<cfgVars, mgrVars, stream_pos, cancel_requested>>

\* message_handler.wait_for_response returns the client's
\* frontend-playback-complete.
AckReceived ==
    /\ Running /\ pc = "wait_ack"
    /\ ack' = "received"
    /\ pc' = "force_new"
    /\ UNCHANGED <<ctlVars, rateVars, durVars, inputVars, divVars>>
    /\ UNCHANGED <<cfgVars, mgrVars, stream_pos, cancel_requested, sent>>

\* message_handler.wait_for_response returns nothing: finalize returns early.
NoResponse ==
    /\ Running /\ pc = "wait_ack"
    /\ ack' = "no_response"
    /\ pc' = "store"
    /\ UNCHANGED <<ctlVars, rateVars, durVars, inputVars, divVars>>
    /\ UNCHANGED <<cfgVars, mgrVars, stream_pos, cancel_requested, sent>>

\* finalize_conversation_turn: force-new-message
SendForceNew ==
    /\ Running /\ pc = "force_new"
    /\ sent' = Append(sent, Message("force-new-message"))
    /\ pc' = "chain_end"
    /\ UNCHANGED <<ctlVars, rateVars, durVars, inputVars, divVars>>
    /\ UNCHANGED <<cfgVars, mgrVars, stream_pos, cancel_requested, ack>>

\* send_conversation_end_signal
SendChainEnd ==
    /\ Running /\ pc = "chain_end"
    /\ sent' = Append(sent, Message("conversation-chain-end"))
    /\ pc' = "store"
    /\ UNCHANGED <<ctlVars, rateVars, durVars, inputVars, divVars>>
    /\ UNCHANGED <<cfgVars, mgrVars, stream_pos, cancel_requested, ack>>

\* The display texts of the first n sentence outputs of stream, joined.
RECURSIVE DisplayTexts(_, _)
DisplayTexts(stream, n) ==
    IF n = 0 THEN <<>>
    ELSE DisplayTexts(stream, n - 1) \o stream[n].display

\* A turn that stores the display text of the whole reply, consumed or not.
full_response_whole_reply(n) == DisplayTexts(agent_stream, Len(agent_stream))

\* full_response once the turn has consumed n sentence outputs:
\* "full_response += response_part_str", and handle_sentence_output returns
\* the display text of its sentence.
full_response(n) == DisplayTexts(agent_stream, n)

\* store_message(role="ai", ...) and store_message(role="system", ...)
AiMessage(content) == [role |-> "ai", content |-> content]
InterruptedByUser == [role |-> "system", content |-> <<"[Interrupted by user]">>]

\* The turn returns: "if context.history_uid and full_response" the AI
\* message is stored; finally cleanup_conversation -> tts_manager.clear().
TurnReturn ==
    /\ Running /\ pc = "store"
    /\ history' = IF history_uid /\ full_response(stream_pos) # <<>>
                  THEN Append(history, AiMessage(full_response(stream_pos)))
                  ELSE history
    /\ clear
    /\ pc' = "done"
    /\ UNCHANGED <<ctlVars, rateVars, durVars, divVars>>
    /\ UNCHANGED <<turn_input, wake_word_config, metadata, history_uid,
                   input_pc, transcript, input_text, input_sent, agent_calls>>
    /\ UNCHANGED <<cfgVars, stream_pos, cancel_requested, sent, tts_tasks,
                   progressive_sentence_count, current_round_max, flush,
                   tts_calls, flushes, ack>>

\* handle_individual_interrupt: task.cancel() on the running turn.
CancelRequest ==
    /\ Running
    /\ cancel_requested' = TRUE
    /\ UNCHANGED <<ctlVars, rateVars, durVars, inputVars, divVars>>
    /\ UNCHANGED <<cfgVars, mgrVars, stream_pos, pc, sent, ack>>

\* CancelledError is raised at the turn's await: a gather cancels the
\* synthesis tasks it waits for, any other await leaves them running; the
\* except clause re-raises and finally runs cleanup_conversation.
TurnCancelled ==
    /\ cancel_requested
    /\ pc \notin {"done", "cancelled"}
    /\ clear
    /\ tts_tasks' = [i \in DOMAIN tts_tasks |->
                       IF pc = "gather" /\ tts_tasks[i].st = "running"
                                        /\ \E k \in DOMAIN task_list : task_list[k] = i
                       THEN [tts_tasks[i] EXCEPT !.st = "cancelled"]
                       ELSE tts_tasks[i]]
    /\ flush' = NoFlush
    /\ pc' = "cancelled"
    /\ UNCHANGED <<ctlVars, rateVars, durVars, inputVars, divVars>>
    /\ UNCHANGED <<cfgVars, stream_pos, cancel_requested, sent,
                   progressive_sentence_count, current_round_max, tts_calls,
                   flushes, ack>>

(***************************************************************************)
(* Specification of one turn.                                              *)
(***************************************************************************)
\* Largest audio_merge_max_sentences explored.
MaxCap == 3

\* current_conversation_tasks[client_uid]: the key is missing, or the value
\* is None; any other value is the number of a task.
KeyMissing == -1
TaskNone == 0

\* stop_word_config of a trigger message; present = FALSE is no config.
NoStopWords == [present |-> FALSE, enabled |-> FALSE, words |-> <<>>]

\* The transcript of a handler that has none (pre_transcribed_text = None).
NoTranscript == <<"<None>">>

\* No handler coroutine is running.  After a call that made the early
\* stop-word check the fields keep the call's values.
HandlerIdle ==
    [pc |-> "idle", call |-> "none", msg_type |-> "none",
     stop_word_config |-> NoStopWords, user_input |-> <<>>,
     transcribed_text |-> NoTranscript, task |-> 0, task_at_entry |-> 0,
     busy_at_entry |-> FALSE, tasks_at_entry |-> 0, sent_at_entry |-> 0]

\* No handler, no synthesis call and no payload loop: the other parts of the
\* program at rest.
CtlAtRest ==
    /\ current_conversation_tasks = KeyMissing
    /\ conversation_tasks = <<>>
    /\ received_data_buffers = <<>>
    /\ handler = HandlerIdle
    /\ handler_sent = <<>>

RateAtRest ==
    /\ now = 0
    /\ request_times = <<>>
    /\ async_lock = [locked |-> 0, waiters |-> <<>>]
    /\ callers = <<>>
    /\ workers = <<>>
    /\ http_starts = <<>>
    /\ cancels = 0

DurAtRest ==
    /\ char_counts = <<>>
    /\ total_duration_ms = 0
    /\ loop_i = 0
    /\ current_time_offset = 0
    /\ merge_infos = <<>>

\* No input stage is running.
NoWakeWords == [present |-> FALSE, enabled |-> FALSE, words |-> <<>>]
NoInput == [kind |-> "none", says |-> <<>>]

InputAtRest ==
    /\ turn_input = NoInput
    /\ wake_word_config = NoWakeWords
    /\ metadata = [skip_history |-> FALSE]
    /\ history_uid = FALSE
    /\ input_pc = "none"
    /\ transcript = NoTranscript
    /\ input_text = <<>>
    /\ input_sent = <<>>
    /\ agent_calls = <<>>
    /\ history = <<>>

\* No divider is running.
DivAtRest ==
    /\ segment_stream = <<>>
    /\ stream_index = 0
    /\ faster_first_response = TRUE
    /\ dual_stream_mode = TRUE
    /\ divider_buffer = <<>>
    /\ tag_stack = <<>>
    /\ is_first_sentence = TRUE
    /\ emitted = <<>>
    /\ flushed = FALSE
    /\ sentence_outputs = <<>>

TurnStart ==
    /\ CtlAtRest /\ RateAtRest /\ DurAtRest /\ InputAtRest /\ DivAtRest
    /\ stream_pos = 0
    /\ pc = "start"
    /\ cancel_requested = FALSE
    /\ sent = <<>>
    /\ tts_calls = <<>>
    /\ flushes = <<>>
    /\ ack = "none"
    /\ TTSTaskManagerInit

Init ==
    /\ agent_stream \in SeqsUpTo(SentenceKinds, MaxSentences)
    /\ merge_enabled \in BOOLEAN
    /\ IF merge_enabled
       THEN /\ merge_max_sentences \in 1..MaxCap
            /\ progressive_merge_enabled \in BOOLEAN
       ELSE /\ merge_max_sentences = 3
            /\ progressive_merge_enabled = TRUE
    /\ TurnStart

Next ==
    \/ SendChainStart
    \/ SendThinking
    \/ AgentYield
    \/ AgentEnd
    \/ AgentRaise
    \/ FlushRemaining
    \/ FlushSynthOk
    \/ FlushSynthFail
    \/ FlushSend
    \/ FlushSendFail
    \/ Gather
    \/ Finalize
    \/ AckReceived
    \/ NoResponse
    \/ SendForceNew
    \/ SendChainEnd
    \/ TurnReturn
    \/ CancelRequest
    \/ TurnCancelled
    \/ SenderGet
    \/ SenderDrain
    \/ \E i \in 1..MaxSentences, ok \in BOOLEAN : TtsTaskFinish(i, ok)

Spec == Init /\ [][Next]_vars

(***************************************************************************)
(* Specification of the merge ramp: merge mode, progressive merge on, cap  *)
(* 3, a stream of merge-eligible sentences.  No synthesis task is created  *)
(* in merge mode and the queue holds its payloads in sequence order, so    *)
(* the sender never has a payload to hold back.                            *)
(***************************************************************************)
InitRamp ==
    /\ agent_stream \in SeqsUpTo(RampKinds, RampSentences)
    /\ merge_enabled = TRUE
    /\ merge_max_sentences = 3
    /\ progressive_merge_enabled = TRUE
    /\ TurnStart

NextRamp ==
    \/ SendChainStart
    \/ SendThinking
    \/ AgentYield
    \/ AgentEnd
    \/ AgentRaise
    \/ FlushRemaining
    \/ FlushSynthOk
    \/ FlushSynthFail
    \/ FlushSend
    \/ Gather
    \/ Finalize
    \/ SendForceNew
    \/ SendChainEnd
    \/ TurnReturn
    \/ CancelRequest
    \/ TurnCancelled
    \/ SenderGet

SpecRamp == InitRamp /\ [][NextRamp]_vars

(***************************************************************************)
(* Claims about one turn.                                                  *)
(***************************************************************************)
IsAudio(m) == m.type = "audio"

\* How many messages of a type were sent.
Count(type) == Cardinality({i \in DOMAIN sent : sent[i].type = type})

\* The turn is past the agent's stream and the final flush.
TurnEnded ==
    pc \in {"gather", "finalize", "wait_ack", "force_new", "chain_end",
            "store", "done"}

\* C1: within a turn the payloads reach websocket_send in the order in which
\* their sentences were submitted to speak(), in single and in merge mode.
C1_SubmissionOrder ==
    \A i, j \in DOMAIN sent :
        (i < j /\ IsAudio(sent[i]) /\ IsAudio(sent[j]))
            => sent[i].sid < sent[j].sid

\* C5 as amended: merge mode, progressive merge, cap 3: seven merge-eligible
\* sentences A..G and the end of the turn give the flushes
\* A | B,C | D,E,F | G, of sizes 1, 2, 3, 1.
FlushSizes == [k \in DOMAIN flushes |-> Len(flushes[k])]

SevenSubmittedAndEnded ==
    /\ Len(agent_stream) = 7
    /\ stream_pos = 7
    /\ TurnEnded

C5_RampSizes ==
    SevenSubmittedAndEnded
        => /\ FlushSizes = <<1, 2, 3, 1>>
           /\ flushes = << <<1>>, <<2, 3>>, <<4, 5, 6>>, <<7>> >>

C5_Witness == SevenSubmittedAndEnded /\ pc = "done" /\ Len(flushes) = 4

\* C5 as stated: the flushes have the sizes 1, 2, 3, 3.
C5_Original == SevenSubmittedAndEnded => FlushSizes = <<1, 2, 3, 3>>

\* C6: a turn that runs to completion sends backend-synth-complete exactly
\* once, then waits for frontend-playback-complete, and sends
\* force-new-message and conversation-chain-end only after receiving it
\* (checked on the turns that synthesized at least one sentence).
PositionsOf(type) == {i \in DOMAIN sent : sent[i].type = type}

C6_SynthCompleteOnceThenAck ==
    (pc = "done" /\ tts_calls # <<>>)
        => /\ Count("backend-synth-complete") = 1
           /\ ack \in {"received", "no_response"}
           /\ ack = "received" =>
                 /\ Count("force-new-message") = 1
                 /\ Count("conversation-chain-end") = 1
                 /\ \A b \in PositionsOf("backend-synth-complete"),
                       f \in PositionsOf("force-new-message"),
                       e \in PositionsOf("conversation-chain-end") :
                       b < f /\ f < e
           /\ ack = "no_response" => Count("force-new-message") = 0

\* C8: a sentence whose tts_text or display text begins with '#' gets a
\* silent display-only payload, never reaches the TTS engine and never enters
\* the merge buffer, in single mode and in merge mode.
BeginsWithHash(s) == StartsWithHash(s.tts) \/ StartsWithHash(s.display)

InSeq(x, q) == \E k \in DOMAIN q : q[k] = x

Queued(sid) ==
    \/ \E k \in DOMAIN payload_queue :
          payload_queue[k].payload = AudioPayload(sid, FALSE, FALSE)
    \/ \E b \in sender_task.buffered :
          b.payload = AudioPayload(sid, FALSE, FALSE)
    \/ InSeq(AudioPayload(sid, FALSE, FALSE), sent)

C8_HeadingNeverSynthesized ==
    \A sid \in 1..stream_pos :
        BeginsWithHash(agent_stream[sid])
            => /\ \A k \in DOMAIN tts_calls : ~InSeq(sid, tts_calls[k])
               /\ ~InSeq(sid, merge_buffer)
               /\ ~InSeq(sid, flush.copy)
               /\ \A i \in DOMAIN sent :
                     sent[i].sid = sid => sent[i] = AudioPayload(sid, FALSE, FALSE)
               /\ pc \notin {"done", "cancelled"} => Queued(sid)

C8_Witness ==
    /\ merge_enabled
    /\ tts_calls # <<>>
    /\ \E i \in DOMAIN sent :
          /\ IsAudio(sent[i])
          /\ agent_stream[sent[i].sid] = ShowHeading

(***************************************************************************)
(* The payload loop of _flush_merge_buffer: the merged audio's duration is *)
(* shared out over the sentences of the flush by their character counts.   *)
(***************************************************************************)
\* Longest flush explored.
MaxFlushLen == 3
\* Largest character count of one sentence (len of its TTS text, at least 1:
\* speak() lets no empty text into the buffer).
MaxChars == 3
\* Largest total duration explored, in milliseconds.
MaxDuration == 12

RECURSIVE SumSeq(_)
SumSeq(q) == IF q = <<>> THEN 0 ELSE Head(q) + SumSeq(Tail(q))

\* total_chars = sum(char_counts)
total_chars == SumSeq(char_counts)

\* int(total_duration_ms * char_ratio), char_ratio = char_counts[i] /
\* total_chars.  Within the bounds above the float product truncates to the
\* integer quotient.
sentence_duration_ms(i) ==
    IF total_chars > 0
    THEN (total_duration_ms * char_counts[i]) \div total_chars
    ELSE total_duration_ms \div Len(char_counts)

\* An offset that forgets the sentences before the last one.
advance_offset_last_only(offset, duration) == duration

\* current_time_offset += sentence_duration_ms
advance_offset(offset, duration) == offset + duration

\* merge_info of payload i: the first payload has no delay_before_show_ms.
merge_info(i) ==
    IF i = 1
    THEN [sentence_index |-> 0,
          sentence_duration_ms |-> sentence_duration_ms(1),
          total_duration_ms |-> total_duration_ms]
    ELSE [sentence_index |-> i - 1,
          sentence_duration_ms |-> sentence_duration_ms(i),
          delay_before_show_ms |-> current_time_offset,
          total_duration_ms |-> total_duration_ms]

\* One pass of the for loop, up to its await websocket_send and the
\* statement after it.
FlushPayload ==
    /\ loop_i < Len(char_counts)
    /\ merge_infos' = Append(merge_infos, merge_info(loop_i + 1))
    /\ current_time_offset' =
           advance_offset(current_time_offset, sentence_duration_ms(loop_i + 1))
    /\ loop_i' = loop_i + 1
    /\ UNCHANGED <<char_counts, total_duration_ms>>
    /\ UNCHANGED <<turnVars, ctlVars, rateVars, inputVars, divVars>>

\* The turn at rest, for the specifications of the other parts.
TurnAtRest ==
    /\ agent_stream = <<>>
    /\ merge_enabled = FALSE
    /\ merge_max_sentences = 3
    /\ progressive_merge_enabled = TRUE
    /\ stream_pos = 0
    /\ pc = "start"
    /\ cancel_requested = FALSE
    /\ sent = <<>>
    /\ tts_calls = <<>>
    /\ flushes = <<>>
    /\ ack = "none"
    /\ TTSTaskManagerInit

InitDur ==
    /\ TurnAtRest /\ CtlAtRest /\ RateAtRest /\ InputAtRest /\ DivAtRest
    /\ char_counts \in UNION {[1..n -> 1..MaxChars] : n \in 1..MaxFlushLen}
    /\ total_duration_ms \in 0..MaxDuration
    /\ loop_i = 0
    /\ current_time_offset = 0
    /\ merge_infos = <<>>

NextDur == FlushPayload

SpecDur == InitDur /\ [][NextDur]_vars

(***************************************************************************)
(* Claims about the payload loop.                                          *)
(***************************************************************************)
\* The sentence_duration_ms of the first n payloads, summed.
SumDurations(n) ==
    SumSeq([j \in 1..n |-> merge_infos[j].sentence_duration_ms])

LoopDone == loop_i = Len(char_counts)

\* C9: the sentence_duration_ms values of a flush sum to exactly the total
\* duration D, the last sentence absorbing the rounding remainder.
C9_DurationsSumToTotal ==
    LoopDone => SumDurations(Len(merge_infos)) = total_duration_ms

\* C10: the delay_before_show_ms of payload k (k >= 2) is the sum of the
\* sentence_duration_ms of payloads 1..k-1 of the flush.
C10_DelayIsSumOfPrevious ==
    \A k \in 2..Len(merge_infos) :
        merge_infos[k].delay_before_show_ms = SumDurations(k - 1)

C10_Witness ==
    /\ LoopDone
    /\ Len(merge_infos) = 3
    /\ merge_infos[1].sentence_duration_ms > 0
    /\ merge_infos[2].sentence_duration_ms > 0
    /\ merge_infos[3].delay_before_show_ms > merge_infos[2].delay_before_show_ms

(***************************************************************************)
(* The conversation handler of one client: handle_conversation_trigger and *)
(* handle_individual_interrupt.  A text is a sequence of characters; an    *)
(* audio buffer is the sequence of characters it says, "~" being a sample  *)
(* of noise.  The handler runs one message at a time.                      *)
(***************************************************************************)
\* Most turn tasks the handler creates.
MaxTasks == 2
\* Most messages the handler sends.
MaxHandlerSent == 4
\* Longest audio buffer.
MaxAudio == 3

\* str.lower()
Lower(t) == [i \in DOMAIN t |-> IF t[i] = "A" THEN "a" ELSE t[i]]

\* Python's "w in t" for strings.
IsSubstring(w, t) ==
    \E i \in 0..(Len(t) - Len(w)) : SubSeq(t, i + 1, i + Len(w)) = w

\* A stop-word test that wants the whole text to be the stop word.
check_stop_word_whole_text(text, stop_words) ==
    \E k \in DOMAIN stop_words :
        /\ Strip(Lower(stop_words[k])) # <<>>
        /\ Strip(Lower(text)) = Strip(Lower(stop_words[k]))

\* check_stop_word(...)["has_stop_word"], fuzzy_pinyin off.
check_stop_word(text, stop_words) ==
    LET normalized_text == Strip(Lower(text))
    IN \E k \in DOMAIN stop_words :
          LET normalized_stop_word == Strip(Lower(stop_words[k]))
          IN /\ normalized_stop_word # <<>>
             /\ \/ normalized_text = normalized_stop_word
                \/ IsSubstring(normalized_stop_word, normalized_text)

\* asr_engine.async_transcribe_np: the characters the audio says.
async_transcribe_np(audio) == SelectSeq(audio, LAMBDA x : x # "~")

\* The audio chunks a client sends (mic-audio-data).
AudioChunks ==
    { <<"~">>, <<"x", "a", "b">>, <<"A", "b", " ">>, <<"b", "a">>, <<" ">> }

\* The stop_word_config values a client sends.
StopWordConfigs ==
    { NoStopWords,
      [present |-> TRUE, enabled |-> FALSE, words |-> << <<"a", "b">> >>],
      [present |-> TRUE, enabled |-> TRUE, words |-> <<>>],
      [present |-> TRUE, enabled |-> TRUE,
       words |-> << <<" ">>, <<"a", "b">> >>] }

TriggerTypes == {"ai-speak-signal", "text-input", "mic-audio-end"}

\* Messages of the handler.
FullText == [type |-> "full-text", is_stop_word |-> FALSE]
StopWordTranscription ==
    [type |-> "user-input-transcription", is_stop_word |-> TRUE]
ControlInterrupt == [type |-> "control:interrupt", is_stop_word |-> FALSE]

\* task and not task.done()
TaskRunning(t) ==
    /\ t \in DOMAIN conversation_tasks
    /\ conversation_tasks[t].st = "running"

\* The keywords handle_conversation_trigger passes to
\* process_single_conversation (lines 198-209).
KeywordsPassed ==
    {"context", "websocket_send", "client_uid", "user_input", "images",
     "session_emoji", "metadata", "wake_word_config", "stop_word_config",
     "pre_transcribed_text"}

\* The parameters of process_single_conversation (single_conversation.py,
\* lines 25-34).
Parameters ==
    {"context", "websocket_send", "client_uid", "user_input", "images",
     "session_emoji", "metadata", "wake_word_config"}

\* The parameters of the process_single_conversation the handler was written
\* for: that version of the function is not among the sources.
NewerParameters == Parameters \cup {"stop_word_config", "pre_transcribed_text"}

\* The versions of process_single_conversation the handler may meet.
Signatures == {Parameters, NewerParameters}

\* current_conversation_tasks[client_uid] =
\*     asyncio.create_task(process_single_conversation(...))
\* A keyword the callee does not have raises TypeError before create_task:
\* the handler ends and the table is left as it was.
create_task ==
    \E signature \in Signatures :
        IF KeywordsPassed \subseteq signature
        THEN /\ conversation_tasks' = Append(conversation_tasks,
                    [st |-> "running", cancel_requested |-> FALSE])
             /\ current_conversation_tasks' = Len(conversation_tasks) + 1
        ELSE UNCHANGED <<conversation_tasks, current_conversation_tasks>>

\* The handler record once a call on the path to create_task is over.
Returned(h) ==
    [HandlerIdle EXCEPT !.call = h.call, !.msg_type = h.msg_type,
                        !.busy_at_entry = h.busy_at_entry,
                        !.tasks_at_entry = h.tasks_at_entry]

\* The early stop-word check applies (lines 84-88).
EarlyCheck(msg_type, cfg, user_input) ==
    /\ msg_type = "mic-audio-end"
    /\ cfg.present /\ cfg.enabled
    /\ cfg.words # <<>>
    /\ Len(user_input) > 0

\* handle_conversation_trigger up to its first await, or to its end.
Trigger(msg_type, cfg) ==
    /\ handler.pc = "idle"
    /\ Len(conversation_tasks) < MaxTasks
    /\ Len(handler_sent) + 2 <= MaxHandlerSent
    /\ LET user_input == IF msg_type = "mic-audio-end"
                         THEN received_data_buffers ELSE <<>>
           h == [HandlerIdle EXCEPT
                    !.call = "trigger", !.msg_type = msg_type,
                    !.stop_word_config = cfg, !.user_input = user_input,
                    !.task_at_entry = current_conversation_tasks,
                    !.busy_at_entry = TaskRunning(current_conversation_tasks),
                    !.tasks_at_entry = Len(conversation_tasks),
                    !.sent_at_entry = Len(handler_sent)]
       IN /\ received_data_buffers' =
                 IF msg_type = "mic-audio-end" THEN <<>>
                 ELSE received_data_buffers
          /\ IF msg_type = "ai-speak-signal"
             THEN /\ handler_sent' = Append(handler_sent, FullText)
                  /\ handler' = [h EXCEPT !.pc = "full_text_sent"]
                  /\ UNCHANGED <<conversation_tasks,
                                 current_conversation_tasks>>
             ELSE IF EarlyCheck(msg_type, cfg, user_input)
             THEN /\ handler' = [h EXCEPT !.pc = "asr"]
                  /\ UNCHANGED <<handler_sent, conversation_tasks,
                                 current_conversation_tasks>>
             ELSE /\ create_task
                  /\ handler' = Returned(h)
                  /\ UNCHANGED handler_sent
    /\ UNCHANGED <<turnVars, rateVars, durVars, inputVars, divVars>>

\* After the full-text of an ai-speak-signal was sent: the turn is started.
StartProactiveTurn ==
    /\ handler.pc = "full_text_sent"
    /\ create_task
    /\ handler' = Returned(handler)
    /\ UNCHANGED <<received_data_buffers, handler_sent>>
    /\ UNCHANGED <<turnVars, rateVars, durVars, inputVars, divVars>>

\* The early check's transcription returns (lines 91-118): a stop word
\* clears the buffer and sends the flagged transcription; otherwise the
\* turn is started.
AsrReturn ==
    /\ handler.pc = "asr"
    /\ LET text == async_transcribe_np(handler.user_input)
           stripped == Strip(text)
       IN IF text # <<>>
             /\ check_stop_word(stripped, handler.stop_word_config.words)
          THEN /\ received_data_buffers' = <<>>
               /\ handler_sent' = Append(handler_sent, StopWordTranscription)
               /\ handler' = [handler EXCEPT !.pc = "transcription_sent",
                                             !.transcribed_text = stripped]
               /\ UNCHANGED <<conversation_tasks,
                              current_conversation_tasks>>
          ELSE /\ create_task
               /\ handler' = [handler EXCEPT
                      !.pc = "idle",
                      !.transcribed_text = IF text # <<>> THEN stripped
                                           ELSE NoTranscript]
               /\ UNCHANGED <<received_data_buffers, handler_sent>>
    /\ UNCHANGED <<turnVars, rateVars, durVars, inputVars, divVars>>

\* The early check's transcription raises: the normal flow goes on.
AsrRaise ==
    /\ handler.pc = "asr"
    /\ create_task
    /\ handler' = [handler EXCEPT !.pc = "idle"]
    /\ UNCHANGED <<received_data_buffers, handler_sent>>
    /\ UNCHANGED <<turnVars, rateVars, durVars, inputVars, divVars>>

\* handle_individual_interrupt up to its await of the cancelled task, or to
\* its end when there is no running task; then what the caller does next.
\* h is the handler record on entry, after is "control" (the trigger sends
\* the control message next) or "return".
handle_individual_interrupt(h, after) ==
    LET task == current_conversation_tasks
    IN IF task # KeyMissing /\ TaskRunning(task)
       THEN /\ conversation_tasks' =
                   [conversation_tasks EXCEPT ![task].cancel_requested = TRUE]
            /\ handler' = [h EXCEPT !.pc = "interrupt_wait", !.task = task]
            /\ UNCHANGED <<current_conversation_tasks, handler_sent>>
       ELSE /\ current_conversation_tasks' =
                   IF task = KeyMissing THEN KeyMissing ELSE TaskNone
            /\ IF after = "control"
               THEN /\ handler_sent' = Append(handler_sent, ControlInterrupt)
                    /\ handler' = [h EXCEPT !.pc = "control_sent"]
               ELSE /\ handler' = HandlerIdle
                    /\ UNCHANGED handler_sent
            /\ UNCHANGED conversation_tasks

\* The trigger handler, after the flagged transcription was sent, calls
\* handle_individual_interrupt (lines 121-126).
StopWordInterrupt ==
    /\ handler.pc = "transcription_sent"
    /\ handle_individual_interrupt(handler, "control")
    /\ UNCHANGED received_data_buffers
    /\ UNCHANGED <<turnVars, rateVars, durVars, inputVars, divVars>>

\* An interrupt-signal message: handle_individual_interrupt.
InterruptSignal ==
    /\ handler.pc = "idle"
    /\ handle_individual_interrupt(
           [HandlerIdle EXCEPT !.call = "interrupt"], "return")
    /\ UNCHANGED received_data_buffers
    /\ UNCHANGED <<turnVars, rateVars, durVars, inputVars, divVars>>

\* The rest of handle_individual_interrupt once wait_for is over, and what
\* the caller does next.
interrupt_wait_over ==
    /\ current_conversation_tasks' = TaskNone
    /\ IF handler.call = "trigger"
       THEN /\ handler_sent' = Append(handler_sent, ControlInterrupt)
            /\ handler' = [handler EXCEPT !.pc = "control_sent"]
       ELSE /\ handler' = HandlerIdle
            /\ UNCHANGED handler_sent
    /\ UNCHANGED <<conversation_tasks, received_data_buffers>>
    /\ UNCHANGED <<turnVars, rateVars, durVars, inputVars, divVars>>

\* wait_for(shield(task), 0.5): the task ended within the timeout.
InterruptWaitDone ==
    /\ handler.pc = "interrupt_wait"
    /\ ~TaskRunning(handler.task)
    /\ interrupt_wait_over

\* wait_for(shield(task), 0.5): the timeout passed, the task still runs.
InterruptWaitTimeout ==
    /\ handler.pc = "interrupt_wait"
    /\ TaskRunning(handler.task)
    /\ interrupt_wait_over

\* The trigger handler returns after the control message (line 134).
HandlerReturn ==
    /\ handler.pc = "control_sent"
    /\ handler' = [handler EXCEPT !.pc = "idle"]
    /\ UNCHANGED <<current_conversation_tasks, conversation_tasks,
                   received_data_buffers, handler_sent>>
    /\ UNCHANGED <<turnVars, rateVars, durVars, inputVars, divVars>>

\* A mic-audio-data message appends a chunk to the client's buffer.
MicAudioData(chunk) ==
    /\ handler.pc = "idle"
    /\ Len(received_data_buffers) + Len(chunk) <= MaxAudio
    /\ received_data_buffers' = received_data_buffers \o chunk
    /\ UNCHANGED <<current_conversation_tasks, conversation_tasks, handler,
                   handler_sent>>
    /\ UNCHANGED <<turnVars, rateVars, durVars, inputVars, divVars>>

\* A turn task runs to its end.
TaskFinish(t) ==
    /\ TaskRunning(t)
    /\ ~conversation_tasks[t].cancel_requested
    /\ conversation_tasks' = [conversation_tasks EXCEPT ![t].st = "done"]
    /\ UNCHANGED <<current_conversation_tasks, received_data_buffers,
                   handler, handler_sent>>
    /\ UNCHANGED <<turnVars, rateVars, durVars, inputVars, divVars>>

\* A turn task whose cancel() was called ends with CancelledError.
TaskCancelled(t) ==
    /\ TaskRunning(t)
    /\ conversation_tasks[t].cancel_requested
    /\ conversation_tasks' =
           [conversation_tasks EXCEPT ![t].st = "cancelled"]
    /\ UNCHANGED <<current_conversation_tasks, received_data_buffers,
                   handler, handler_sent>>
    /\ UNCHANGED <<turnVars, rateVars, durVars, inputVars, divVars>>

InitCtl ==
    /\ TurnAtRest /\ CtlAtRest /\ RateAtRest /\ DurAtRest
    /\ InputAtRest /\ DivAtRest

NextCtl ==
    \/ \E m \in TriggerTypes, cfg \in StopWordConfigs : Trigger(m, cfg)
    \/ StartProactiveTurn
    \/ AsrReturn
    \/ AsrRaise
    \/ StopWordInterrupt
    \/ InterruptSignal
    \/ InterruptWaitDone
    \/ InterruptWaitTimeout
    \/ HandlerReturn
    \/ \E chunk \in AudioChunks : MicAudioData(chunk)
    \/ \E t \in 1..MaxTasks : TaskFinish(t)
    \/ \E t \in 1..MaxTasks : TaskCancelled(t)

SpecCtl == InitCtl /\ [][NextCtl]_vars

(***************************************************************************)
(* Claims about the conversation handler.                                  *)
(***************************************************************************)
AliveTasks ==
    {t \in DOMAIN conversation_tasks : conversation_tasks[t].st = "running"}

TranscriptHoldsStopWord(audio, stop_words) ==
    \E k \in DOMAIN stop_words :
        /\ Strip(stop_words[k]) # <<>>
        /\ IsSubstring(stop_words[k], async_transcribe_np(audio))

\* The last call of the handler was a mic-audio-end with stop-word detection
\* enabled whose transcript holds a configured stop word.
StopWordHeard ==
    /\ handler.call = "trigger"
    /\ handler.msg_type = "mic-audio-end"
    /\ handler.stop_word_config.present
    /\ handler.stop_word_config.enabled
    /\ handler.transcribed_text # NoTranscript
    /\ TranscriptHoldsStopWord(handler.user_input,
                               handler.stop_word_config.words)

\* What the handler sent since the call began.
SentByCall ==
    SubSeq(handler_sent, handler.sent_at_entry + 1, Len(handler_sent))

\* The task that was the client's turn when the call began has ended or has
\* had cancel() called on it.
TurnCancelRequested ==
    handler.task_at_entry > 0 =>
        \/ conversation_tasks[handler.task_at_entry].st # "running"
        \/ conversation_tasks[handler.task_at_entry].cancel_requested

C12_ValidInputStartsTurn ==
    (/\ handler.pc = "idle"
     /\ handler.call = "trigger"
     /\ handler.msg_type = "text-input"
     /\ ~handler.busy_at_entry)
        => /\ Len(conversation_tasks) = handler.tasks_at_entry + 1
           /\ current_conversation_tasks = Len(conversation_tasks)

(***************************************************************************)
(* The Step TTS engine: async_generate_audio, generate_audio and the       *)
(* process-wide StepTTSRateLimiter.  Time is counted in half seconds.      *)
(***************************************************************************)
\* _global_rate_limiter = StepTTSRateLimiter(rpm_limit=6)
rpm_limit == 6
\* The 60 seconds of _wait_for_rate_limit.
Window == 120
\* The extra 0.5 seconds of _wait_for_rate_limit.
SafetyBuffer == 1
\* wait_time = 12 after a 429.
RetryAfter429 == 24
\* time.sleep(2) after a timeout.
RetryAfterTimeout == 4
\* requests.post(..., timeout=60)
PostTimeout == 120
\* max_retries = 3
max_retries == 3

\* Calls of async_generate_audio explored.
MaxCalls == 3
\* Callers cancelled while they wait.
MaxCancels == 1
\* Last instant explored.
MaxTime == 130

\* The calls of a run.
Calls == DOMAIN callers

\* first_post is the instant of the call's first requests.post, -1 before;
\* last is how the latest attempt ended (the status code as a string,
\* "timeout" or "error"), result what generate_audio returned ("file" or
\* "none").
NoWorker ==
    [pc |-> "none", attempt |-> 0, until |-> 0, first_post |-> -1,
     last |-> "none", result |-> "pending"]

\* The while loop of _wait_for_rate_limit: records older than the window go.
RECURSIVE Prune(_, _)
Prune(times, t) ==
    IF times # <<>> /\ t - Head(times) > Window
    THEN Prune(Tail(times), t)
    ELSE times

\* deque(maxlen=rpm_limit).append
DequeAppend(times, t) ==
    IF Len(times) >= rpm_limit THEN Append(Tail(times), t)
    ELSE Append(times, t)

\* _wait_for_rate_limit's result on the pruned records.
wait_time(times, t) ==
    IF Len(times) < rpm_limit THEN 0
    ELSE LET w == Window - (t - Head(times)) + SafetyBuffer
         IN IF w > 0 THEN w ELSE 0

\* requests.post is called by worker c.
StartPost(c) ==
    /\ workers' = [workers EXCEPT
                       ![c].pc = "post",
                       ![c].until = now + PostTimeout,
                       ![c].first_post = IF @ = -1 THEN now ELSE @]
    /\ http_starts' = Append(http_starts, now)

\* asyncio.to_thread(self.generate_audio, ...) once the lock is held.
StartWorker(c) ==
    /\ callers' = [callers EXCEPT ![c] = "to_thread"]
    /\ workers' = [workers EXCEPT ![c] =
                       [NoWorker EXCEPT !.pc = "rate_limit"]]

\* An async mutex that lets every caller in.
mutex_always_free == TRUE

\* asyncio.Lock.acquire does not wait: the lock is free and nobody queues.
mutex_free == async_lock.locked = 0 /\ async_lock.waiters = <<>>

\* async_generate_audio is called: the lock is taken at once when it is free
\* and nobody waits, else the caller queues for it.
Call(c) ==
    /\ callers[c] = "idle"
    /\ \A d \in Calls : d < c => callers[d] # "idle"
    /\ IF mutex_free
       THEN /\ async_lock' = [async_lock EXCEPT !.locked = c]
            /\ StartWorker(c)
       ELSE /\ async_lock' =
                   [async_lock EXCEPT !.waiters = Append(@, c)]
            /\ callers' = [callers EXCEPT ![c] = "lock_wait"]
            /\ UNCHANGED workers
    /\ UNCHANGED <<now, request_times, http_starts, cancels>>
    /\ UNCHANGED <<turnVars, ctlVars, durVars, inputVars, divVars>>

\* The first waiter gets the released lock.
LockAcquire(c) ==
    /\ async_lock.locked = 0
    /\ async_lock.waiters # <<>>
    /\ Head(async_lock.waiters) = c
    /\ async_lock' = [locked |-> c, waiters |-> Tail(async_lock.waiters)]
    /\ StartWorker(c)
    /\ UNCHANGED <<now, request_times, http_starts, cancels>>
    /\ UNCHANGED <<turnVars, ctlVars, durVars, inputVars, divVars>>

\* The threads inside a "with self._lock" block of the rate limiter.
WindowLockHolders == {d \in Calls : workers[d].pc = "window"}

\* wait_if_needed at the top of an attempt: _wait_for_rate_limit takes the
\* sliding-window lock ("with self._lock").
RateLimitEnter(c) ==
    /\ workers[c].pc = "rate_limit"
    /\ WindowLockHolders = {}
    /\ workers' = [workers EXCEPT ![c].pc = "window"]
    /\ UNCHANGED <<now, request_times, async_lock, callers, http_starts,
                   cancels>>
    /\ UNCHANGED <<turnVars, ctlVars, durVars, inputVars, divVars>>

\* _wait_for_rate_limit under the lock, the lock released, and the rest of
\* wait_if_needed: with quota the request is posted, else the thread sleeps.
RateLimit(c) ==
    /\ workers[c].pc = "window"
    /\ LET pruned == Prune(request_times, now)
           w == wait_time(pruned, now)
       IN /\ request_times' = pruned
          /\ IF w = 0
             THEN StartPost(c)
             ELSE /\ workers' = [workers EXCEPT ![c].pc = "rate_sleep",
                                                ![c].until = now + w]
                  /\ UNCHANGED http_starts
    /\ UNCHANGED <<now, async_lock, callers, cancels>>
    /\ UNCHANGED <<turnVars, ctlVars, durVars, inputVars, divVars>>

\* time.sleep(wait_time) of wait_if_needed is over: the request is posted.
RateWake(c) ==
    /\ workers[c].pc = "rate_sleep"
    /\ now >= workers[c].until
    /\ StartPost(c)
    /\ UNCHANGED <<now, request_times, async_lock, callers, cancels>>
    /\ UNCHANGED <<turnVars, ctlVars, durVars, inputVars, divVars>>

\* A generate_audio that sleeps and retries after every status but 200.
is_rate_limited_or_failed(status) == status # 200

\* "elif response.status_code == 429"
is_rate_limited(status) == status = 429

\* The provider answers: record_request (under the sliding-window lock, in
\* one step), then by status code: 200 returns
\* the file, 429 sleeps and goes on to the next attempt, any other status
\* returns None.
Response(c, status) ==
    /\ workers[c].pc = "post"
    /\ WindowLockHolders = {}
    /\ request_times' = DequeAppend(request_times, now)
    /\ workers' =
          IF is_rate_limited(status)
          THEN [workers EXCEPT ![c].pc = "sleep_429",
                               ![c].until = now + RetryAfter429,
                               ![c].last = ToString(status)]
          ELSE [workers EXCEPT ![c].pc = "done",
                               ![c].last = ToString(status),
                               ![c].result = IF status = 200 THEN "file"
                                             ELSE "none"]
    /\ UNCHANGED <<now, async_lock, callers, http_starts, cancels>>
    /\ UNCHANGED <<turnVars, ctlVars, durVars, inputVars, divVars>>

\* requests.exceptions.Timeout after 60 seconds.
Timeout(c) ==
    /\ workers[c].pc = "post"
    /\ now >= workers[c].until
    /\ workers' =
          IF workers[c].attempt < max_retries - 1
          THEN [workers EXCEPT ![c].pc = "sleep_timeout",
                               ![c].until = now + RetryAfterTimeout,
                               ![c].last = "timeout"]
          ELSE [workers EXCEPT ![c].pc = "done", ![c].last = "timeout",
                               ![c].result = "none"]
    /\ UNCHANGED <<now, request_times, async_lock, callers, http_starts,
                   cancels>>
    /\ UNCHANGED <<turnVars, ctlVars, durVars, inputVars, divVars>>

\* Any other requests.exceptions.RequestException: None is returned.
RequestException(c) ==
    /\ workers[c].pc = "post"
    /\ workers' = [workers EXCEPT ![c].pc = "done", ![c].last = "error",
                                  ![c].result = "none"]
    /\ UNCHANGED <<now, request_times, async_lock, callers, http_starts,
                   cancels>>
    /\ UNCHANGED <<turnVars, ctlVars, durVars, inputVars, divVars>>

\* The sleep after a 429 or a timeout is over: the next attempt, or the end
\* of the for loop.
RetryWake(c) ==
    /\ workers[c].pc \in {"sleep_429", "sleep_timeout"}
    /\ now >= workers[c].until
    /\ workers' =
          IF workers[c].attempt + 1 < max_retries
          THEN [workers EXCEPT ![c].pc = "rate_limit",
                               ![c].attempt = @ + 1]
          ELSE [workers EXCEPT ![c].pc = "done", ![c].result = "none"]
    /\ UNCHANGED <<now, request_times, async_lock, callers, http_starts,
                   cancels>>
    /\ UNCHANGED <<turnVars, ctlVars, durVars, inputVars, divVars>>

\* to_thread returns to the caller, "async with" releases the lock.
Return(c) ==
    /\ callers[c] = "to_thread"
    /\ workers[c].pc = "done"
    /\ callers' = [callers EXCEPT ![c] = "returned"]
    /\ async_lock' = [async_lock EXCEPT !.locked = 0]
    /\ UNCHANGED <<now, request_times, workers, http_starts, cancels>>
    /\ UNCHANGED <<turnVars, ctlVars, durVars, inputVars, divVars>>

\* The task awaiting async_generate_audio is cancelled: a waiter leaves the
\* queue; the holder's "async with" releases the lock while its worker
\* thread runs on.
Cancel(c) ==
    /\ cancels < MaxCancels
    /\ callers[c] \in {"lock_wait", "to_thread"}
    /\ callers' = [callers EXCEPT ![c] = "cancelled"]
    /\ async_lock' =
          IF callers[c] = "to_thread"
          THEN [async_lock EXCEPT !.locked = 0]
          ELSE [async_lock EXCEPT
                   !.waiters = SelectSeq(@, LAMBDA d : d # c)]
    /\ cancels' = cancels + 1
    /\ UNCHANGED <<now, request_times, workers, http_starts>>
    /\ UNCHANGED <<turnVars, ctlVars, durVars, inputVars, divVars>>

\* The instants at which a sleep or a request's timeout ends.
Timers ==
    {workers[c].until : c \in {d \in Calls :
        /\ workers[d].pc \in {"rate_sleep", "post", "sleep_429",
                               "sleep_timeout"}
        /\ workers[d].until > now}}

\* Time passes: to the next timer, or by a window when none is set; last is
\* the last instant explored.
Advance(last) ==
    /\ now' = IF Timers # {}
              THEN CHOOSE t \in Timers : \A u \in Timers : t <= u
              ELSE now + Window + SafetyBuffer
    /\ now' <= last
    /\ UNCHANGED <<request_times, async_lock, callers, workers, http_starts,
                   cancels>>
    /\ UNCHANGED <<turnVars, ctlVars, durVars, inputVars, divVars>>

AdvanceTime ==
    /\ now < MaxTime
    /\ Advance(MaxTime)

InitRate ==
    /\ TurnAtRest /\ CtlAtRest /\ DurAtRest /\ InputAtRest /\ DivAtRest
    /\ now = 0
    /\ request_times = <<>>
    /\ async_lock = [locked |-> 0, waiters |-> <<>>]
    /\ callers = [c \in 1..MaxCalls |-> "idle"]
    /\ workers = [c \in 1..MaxCalls |-> NoWorker]
    /\ http_starts = <<>>
    /\ cancels = 0

NextRate ==
    \/ \E c \in Calls : Call(c)
    \/ \E c \in Calls : LockAcquire(c)
    \/ \E c \in Calls : RateLimitEnter(c)
    \/ \E c \in Calls : RateLimit(c)
    \/ \E c \in Calls : RateWake(c)
    \/ \E c \in Calls, status \in {200, 429, 500} : Response(c, status)
    \/ \E c \in Calls : Timeout(c)
    \/ \E c \in Calls : RequestException(c)
    \/ \E c \in Calls : RetryWake(c)
    \/ \E c \in Calls : Return(c)
    \/ \E c \in Calls : Cancel(c)
    \/ AdvanceTime

SpecRate == InitRate /\ [][NextRate]_vars

(***************************************************************************)
(* Claims about the Step TTS engine.                                       *)
(***************************************************************************)
InFlight == {c \in Calls : workers[c].pc = "post"}

\* C2: at any instant at most one HTTP synthesis request is in flight,
\* also when a caller is cancelled while its request runs in the thread.
C2_OneRequestInFlight == Cardinality(InFlight) <= 1

\* C3: in any rolling 60-second window at most rpm_limit HTTP requests are
\* issued, every attempt counted: of rpm_limit + 1 successive attempts the
\* last starts a full window after the first.
C3_SixPerWindow ==
    \A i \in DOMAIN http_starts :
        (i + rpm_limit) \in DOMAIN http_starts
            => http_starts[i + rpm_limit] - http_starts[i] >= Window

(***************************************************************************)
(* A burst of synthesis calls: all of them are issued within a short span, *)
(* no caller is cancelled.                                                 *)
(***************************************************************************)
\* Calls of a burst.
BurstCalls == 7
\* The span within which the calls of a burst are issued: 10 seconds.
IssueSpan == 20

\* async_generate_audio is called within the span.
BurstCall(c) ==
    /\ now <= IssueSpan
    /\ Call(c)

InitBurst ==
    /\ TurnAtRest /\ CtlAtRest /\ DurAtRest /\ InputAtRest /\ DivAtRest
    /\ now = 0
    /\ request_times = <<>>
    /\ async_lock = [locked |-> 0, waiters |-> <<>>]
    /\ callers = [c \in 1..BurstCalls |-> "idle"]
    /\ workers = [c \in 1..BurstCalls |-> NoWorker]
    /\ http_starts = <<>>
    /\ cancels = 0

NextBurst ==
    \/ \E c \in Calls : BurstCall(c)
    \/ \E c \in Calls : LockAcquire(c)
    \/ \E c \in Calls : RateLimitEnter(c)
    \/ \E c \in Calls : RateLimit(c)
    \/ \E c \in Calls : RateWake(c)
    \/ \E c \in Calls, status \in {200, 429, 500} : Response(c, status)
    \/ \E c \in Calls : Timeout(c)
    \/ \E c \in Calls : RequestException(c)
    \/ \E c \in Calls : RetryWake(c)
    \/ \E c \in Calls : Return(c)
    \/ AdvanceTime

SpecBurst == InitBurst /\ [][NextBurst]_vars

\* C11: of 7 synthesis calls issued within 10 seconds, the HTTP request of
\* the 7th starts no earlier than 60 seconds after that of the 1st started.
C11_SeventhWaitsAWindow ==
    (7 \in Calls /\ workers[7].first_post # -1)
        => workers[7].first_post - workers[1].first_post >= Window

(***************************************************************************)
(* The input stage of a turn: process_user_input and the part of           *)
(* process_single_conversation up to the call of agent_engine.chat.  A     *)
(* text is a sequence of characters; the characters outside ASCII are      *)
(* written by their code points ("u3002" is the ideographic full stop).    *)
(* Pinyin matching is off (fuzzy_pinyin = False).  The turn is given no    *)
(* stop_word_config, so process_user_input makes no stop-word check.       *)
(***************************************************************************)
\* The ASR results taken for noise, without the filler words.
invalid_patterns_punctuation ==
    { <<"u3002">>, <<".">>, <<"uFF0C">>, <<",">>, <<"!">>, <<"?">> }

\* invalid_patterns of process_user_input.
invalid_patterns ==
    { <<"u3002">>, <<".">>, <<"uFF0C">>, <<",">>, <<"!">>, <<"?">>,
      <<"u55EF">>, <<"u554A">>, <<"u54E6">>, <<"u5443">> }

\* The characters of the class [,，、。.!！?？\s] of check_wake_word.
SeparatorClass ==
    { ",", "uFF0C", "u3001", "u3002", ".", "!", "uFF01", "?", "uFF1F" }
        \cup Whitespace

\* re.sub(r'^[...]+', '', t)
RECURSIVE StripSeparators(_)
StripSeparators(t) ==
    IF t # <<>> /\ Head(t) \in SeparatorClass
    THEN StripSeparators(Tail(t))
    ELSE t

\* str.startswith
StartsWith(t, w) == Len(w) <= Len(t) /\ SubSeq(t, 1, Len(w)) = w

\* str.find: the first index (from 0) of w in t, -1 when there is none.
Find(t, w) ==
    IF IsSubstring(w, t)
    THEN CHOOSE i \in 0..(Len(t) - Len(w)) :
            /\ SubSeq(t, i + 1, i + Len(w)) = w
            /\ \A j \in 0..(i - 1) : SubSeq(t, j + 1, j + Len(w)) # w
    ELSE -1

\* text[n:]
From(t, n) == SubSeq(t, n + 1, Len(t))

\* clean_text of check_wake_word for a match that ends at index n.
clean_text_after(text, n) == Strip(StripSeparators(Strip(From(text, n))))

\* check_wake_word: the first wake word of the list that the text starts
\* with or contains decides.
RECURSIVE check_wake_word_from(_, _, _)
check_wake_word_from(text, wake_words, k) ==
    IF k > Len(wake_words)
    THEN [has_wake_word |-> FALSE, clean_text |-> text]
    ELSE LET normalized_text == Strip(Lower(text))
             wake_word == wake_words[k]
             normalized_wake_word == Strip(Lower(wake_word))
             wake_word_index == Find(normalized_text, normalized_wake_word)
         IN IF StartsWith(normalized_text, normalized_wake_word)
            THEN [has_wake_word |-> TRUE,
                  clean_text |-> clean_text_after(text, Len(wake_word))]
            ELSE IF wake_word_index # -1
            THEN [has_wake_word |-> TRUE,
                  clean_text |->
                      clean_text_after(text, wake_word_index + Len(wake_word))]
            ELSE check_wake_word_from(text, wake_words, k + 1)

check_wake_word(text, wake_words) == check_wake_word_from(text, wake_words, 1)

\* What process_user_input does with the transcript of an audio input:
\* the text it returns and the messages it sends.
Transcription(text) == [type |-> "user-input-transcription", text |-> text]
OnlyWakeWord == <<"(", "w", ")">>

process_audio_text(asr_text, config) ==
    LET text == Strip(asr_text)
        silent == [text |-> <<>>, sends |-> <<>>]
    IN IF text = <<>> THEN silent
       ELSE IF text \in invalid_patterns THEN silent
       ELSE IF config.present /\ config.enabled /\ config.words # <<>>
       THEN LET result == check_wake_word(text, config.words)
            IN IF result.has_wake_word
               THEN IF result.clean_text # <<>>
                    THEN [text |-> result.clean_text,
                          sends |-> <<Transcription(result.clean_text)>>]
                    ELSE [text |-> <<>>,
                          sends |-> <<Transcription(OnlyWakeWord)>>]
               ELSE silent
       ELSE [text |-> text, sends |-> <<Transcription(text)>>]

\* What the audio inputs say ("~" is sound without speech).
Utterances ==
    { <<>>, <<"~">>, <<" ">>, <<".">>, <<"u55EF">>, <<" ", "?", " ">>,
      <<".", ".">>, <<"x">>, <<"a", "b">>, <<"a", "b", ".">>,
      <<"x", "A", "b", ",", "x">>, <<"b", "a">> }

\* The texts a client types.
TypedTexts == { <<>>, <<" ">>, <<".">>, <<"x">>, <<" ", "b", "a">> }

\* The wake_word_config values a client sends.
WakeWordConfigs ==
    { NoWakeWords,
      [present |-> TRUE, enabled |-> FALSE, words |-> << <<"a", "b">> >>],
      [present |-> TRUE, enabled |-> TRUE, words |-> <<>>],
      [present |-> TRUE, enabled |-> TRUE, words |-> << <<"a", "b">> >>],
      [present |-> TRUE, enabled |-> TRUE,
       words |-> << <<"x", "x">>, <<" ", "A", "B">> >>] }

\* asr_engine.async_transcribe_np returns.
TranscribeReturn ==
    /\ input_pc = "input"
    /\ turn_input.kind = "audio"
    /\ transcript' = async_transcribe_np(turn_input.says)
    /\ input_pc' = "transcribed"
    /\ UNCHANGED <<turn_input, wake_word_config, metadata, history_uid,
                   input_text, input_sent, agent_calls, history>>
    /\ UNCHANGED <<turnVars, ctlVars, rateVars, durVars, divVars>>

\* asr_engine.async_transcribe_np raises: the turn reports the error and
\* ends.
TranscribeRaise ==
    /\ input_pc = "input"
    /\ turn_input.kind = "audio"
    /\ input_sent' = Append(input_sent, [type |-> "error", text |-> <<>>])
    /\ input_pc' = "raised"
    /\ UNCHANGED <<turn_input, wake_word_config, metadata, history_uid,
                   transcript, input_text, agent_calls, history>>
    /\ UNCHANGED <<turnVars, ctlVars, rateVars, durVars, divVars>>

\* process_user_input after the ASR, up to its return, and the test of
\* input_text in process_single_conversation.
ProcessAudioInput ==
    /\ input_pc = "transcribed"
    /\ LET r == process_audio_text(transcript, wake_word_config)
       IN /\ input_text' = r.text
          /\ input_sent' = input_sent \o r.sends
          /\ input_pc' = IF r.text = <<>> THEN "returned" ELSE "start"
    /\ UNCHANGED <<turn_input, wake_word_config, metadata, history_uid,
                   transcript, agent_calls, history>>
    /\ UNCHANGED <<turnVars, ctlVars, rateVars, durVars, divVars>>

\* process_user_input of a typed text (is_from_voice is False).
ProcessTextInput ==
    /\ input_pc = "input"
    /\ turn_input.kind = "text"
    /\ input_text' = Strip(turn_input.says)
    /\ input_pc' = IF Strip(turn_input.says) = <<>> THEN "returned" ELSE "start"
    /\ UNCHANGED <<turn_input, wake_word_config, metadata, history_uid,
                   transcript, input_sent, agent_calls, history>>
    /\ UNCHANGED <<turnVars, ctlVars, rateVars, durVars, divVars>>

\* send_conversation_start_signals: the conversation-chain-start message.
SendStartSignal ==
    /\ input_pc = "start"
    /\ input_sent' = Append(input_sent,
                            [type |-> "control",
                             text |-> <<"conversation-chain-start">>])
    /\ input_pc' = "thinking"
    /\ UNCHANGED <<turn_input, wake_word_config, metadata, history_uid,
                   transcript, input_text, agent_calls, history>>
    /\ UNCHANGED <<turnVars, ctlVars, rateVars, durVars, divVars>>

\* send_conversation_start_signals: the Thinking... message.
SendThinkingSignal ==
    /\ input_pc = "thinking"
    /\ input_sent' = Append(input_sent,
                            [type |-> "full-text", text |-> <<"Thinking...">>])
    /\ input_pc' = "store"
    /\ UNCHANGED <<turn_input, wake_word_config, metadata, history_uid,
                   transcript, input_text, agent_calls, history>>
    /\ UNCHANGED <<turnVars, ctlVars, rateVars, durVars, divVars>>

\* The user message is stored and agent_engine.chat is called.
StoreAndChat ==
    /\ input_pc = "store"
    /\ history' = IF history_uid /\ ~metadata.skip_history
                  THEN Append(history, [role |-> "human", content |-> input_text])
                  ELSE history
    /\ agent_calls' = Append(agent_calls, input_text)
    /\ input_pc' = "chat"
    /\ UNCHANGED <<turn_input, wake_word_config, metadata, history_uid,
                   transcript, input_text, input_sent>>
    /\ UNCHANGED <<turnVars, ctlVars, rateVars, durVars, divVars>>

InitInput ==
    /\ TurnAtRest /\ CtlAtRest /\ RateAtRest /\ DurAtRest /\ DivAtRest
    /\ \/ /\ turn_input \in [kind : {"audio"}, says : Utterances]
          /\ metadata = [skip_history |-> FALSE]
       \/ /\ turn_input \in [kind : {"text"}, says : TypedTexts]
          /\ metadata \in [skip_history : BOOLEAN]
    /\ wake_word_config \in WakeWordConfigs
    /\ history_uid \in BOOLEAN
    /\ input_pc = "input"
    /\ transcript = NoTranscript
    /\ input_text = <<>>
    /\ input_sent = <<>>
    /\ agent_calls = <<>>
    /\ history = <<>>

NextInput ==
    \/ TranscribeReturn
    \/ TranscribeRaise
    \/ ProcessAudioInput
    \/ ProcessTextInput
    \/ SendStartSignal
    \/ SendThinkingSignal
    \/ StoreAndChat

SpecInput == InitInput /\ [][NextInput]_vars

\* The transcript of an audio input is there.
Transcribed == turn_input.kind = "audio" /\ transcript # NoTranscript

\* The noise tokens of the claim.
NoiseTokens ==
    { <<"u3002">>, <<".">>, <<"uFF0C">>, <<",">>, <<"!">>, <<"?">>,
      <<"u55EF">>, <<"u554A">>, <<"u54E6">>, <<"u5443">> }

\* The transcript is empty or a single noise token.
IsNoise(t) == Strip(t) = <<>> \/ Strip(t) \in NoiseTokens

\* The transcript contains none of the words.
ContainsNone(t, words) ==
    \A k \in DOMAIN words :
        ~IsSubstring(Strip(Lower(words[k])), Strip(Lower(t)))

\* Nothing was sent, the model was not called, nothing was stored.
DroppedSilently == input_sent = <<>> /\ agent_calls = <<>> /\ history = <<>>

COMMAS ==
    <<",", "u060C", "uFF0C", "u3001", "u1363", "u104A", ";", "u0384",
      "u201B", "u0964", "uFE50", "uA4FE", "u2E41", "uFE10", "uFE51",
      "uFF64", "u060C">>

\* The single characters of END_PUNCTUATIONS ("..." and its ideographic
\* form hold one of them).
END_PUNCTUATIONS == {".", "!", "?", "u3002", "uFF01", "uFF1F"}

ABBREVIATIONS ==
    { <<"M", "r", ".">>, <<"M", "r", "s", ".">>, <<"D", "r", ".">>,
      <<"P", "r", "o", "f", ".">>, <<"I", "n", "c", ".">>,
      <<"L", "t", "d", ".">>, <<"J", "r", ".">>, <<"S", "r", ".">>,
      <<"e", ".", "g", ".">>, <<"i", ".", "e", ".">>, <<"v", "s", ".">>,
      <<"S", "t", ".">>, <<"R", "d", ".">> }

Digits == {"0", "1", "2", "3", "4", "5", "6", "7", "8", "9"}

\* str.endswith
EndsWith(t, w) ==
    Len(w) <= Len(t) /\ SubSeq(t, Len(t) - Len(w) + 1, Len(t)) = w

\* t[a:b] of Python, for 0 <= a.
Slice(t, a, b) ==
    LET hi == IF b > Len(t) THEN Len(t) ELSE b
    IN IF a >= hi THEN <<>> ELSE SubSeq(t, a + 1, hi)

\* str.count: the occurrences of w in t that do not overlap.
RECURSIVE CountSub(_, _)
CountSub(t, w) ==
    IF Len(t) < Len(w) THEN 0
    ELSE IF SubSeq(t, 1, Len(w)) = w
    THEN 1 + CountSub(From(t, Len(w)), w)
    ELSE CountSub(Tail(t), w)

contains_comma(text) ==
    \E i \in DOMAIN text : \E k \in DOMAIN COMMAS : text[i] = COMMAS[k]

contains_end_punctuation(text) ==
    \E i \in DOMAIN text : text[i] \in END_PUNCTUATIONS

\* is_inside_markdown of comma_splitter.
is_inside_markdown(text, pos) ==
    LET before == Slice(text, 0, pos)
        bold_stars == CountSub(before, <<"*", "*">>)
        bold_underscores == CountSub(before, <<"_", "_">>)
        single_stars == CountSub(before, <<"*">>) - bold_stars * 2
        single_underscores == CountSub(before, <<"_">>) - bold_underscores * 2
        backticks == CountSub(before, <<"u0060">>)
        triple_backticks == CountSub(before, <<"u0060", "u0060", "u0060">>)
    IN \/ bold_stars % 2 = 1
       \/ bold_underscores % 2 = 1
       \/ single_stars % 2 = 1
       \/ single_underscores % 2 = 1
       \/ (backticks - triple_backticks * 3) % 2 = 1
       \/ triple_backticks % 2 = 1

\* The number of digits a text ends with.
RECURSIVE TrailingDigits(_)
TrailingDigits(t) ==
    IF t # <<>> /\ t[Len(t)] \in Digits
    THEN 1 + TrailingDigits(SubSeq(t, 1, Len(t) - 1))
    ELSE 0

\* The number of digits a text begins with.
RECURSIVE LeadingDigits(_)
LeadingDigits(t) ==
    IF t # <<>> /\ Head(t) \in Digits THEN 1 + LeadingDigits(Tail(t)) ELSE 0

\* re.match(r'^\s*\d+[.)，,\s]', t)
StartsWithEnumerator(t) ==
    LET s == LStrip(t)
        d == LeadingDigits(s)
    IN /\ d > 0
       /\ Len(s) > d
       /\ s[d + 1] \in {".", ")", "uFF0C", ","} \cup Whitespace

\* re.search(r'\d+[,，]\s*\d+$', t)
EndsWithNumberList(t) ==
    LET d == TrailingDigits(t)
        s == RStrip(SubSeq(t, 1, Len(t) - d))
    IN /\ d > 0
       /\ Len(s) >= 2
       /\ s[Len(s)] \in {",", "uFF0C"}
       /\ s[Len(s) - 1] \in Digits

\* text.rfind('\n', 0, pos)
RFindNewline(text, pos) ==
    IF \E i \in 0..(pos - 1) : text[i + 1] = "\n"
    THEN CHOOSE i \in 0..(pos - 1) :
            /\ text[i + 1] = "\n"
            /\ \A j \in (i + 1)..(pos - 1) : text[j + 1] # "\n"
    ELSE -1

\* should_skip_comma of comma_splitter.
should_skip_comma(text, pos) ==
    LET found == RFindNewline(text, pos)
        line_start == IF found = -1 THEN 0 ELSE found + 1
        line_content == Strip(Slice(text, line_start, pos))
        after_comma == Strip(Slice(text, pos + 1, pos + 10))
        before_comma ==
            Strip(Slice(text, IF pos - 10 > 0 THEN pos - 10 ELSE 0, pos))
        before_more == Slice(text, IF pos - 20 > 0 THEN pos - 20 ELSE 0, pos)
    IN IF is_inside_markdown(text, pos) THEN TRUE
       ELSE IF StartsWithHash(line_content) THEN TRUE
       ELSE IF StartsWithEnumerator(after_comma) THEN FALSE
       ELSE IF TrailingDigits(before_comma) > 0 /\ EndsWithNumberList(before_more)
       THEN TRUE
       ELSE FALSE

\* comma_splitter: the text up to and with the first comma that is not to
\* be skipped, and the rest; the commas are tried in the order of COMMAS.
comma_splitter(text) ==
    LET safe == { c \in (DOMAIN COMMAS) \X (0..(Len(text) - 1)) :
                    /\ text[c[2] + 1] = COMMAS[c[1]]
                    /\ ~should_skip_comma(text, c[2]) }
    IN IF safe = {}
       THEN <<text, <<>> >>
       ELSE LET first == CHOOSE c \in safe :
                            \A d \in safe :
                                \/ c[1] < d[1]
                                \/ c[1] = d[1] /\ c[2] <= d[2]
            IN << Strip(Slice(text, 0, first[2] + 1)),
                  Strip(From(text, first[2] + 1)) >>

\* The characters of the class the pattern of segment_text_by_regex ends a
\* sentence with: "|".join puts the bar into the class.
SentenceEndClass == END_PUNCTUATIONS \cup {"|"}

\* The while loop of segment_text_by_regex.
RECURSIVE regex_loop(_, _)
regex_loop(remaining_text, complete_sentences) ==
    IF \A i \in DOMAIN remaining_text : remaining_text[i] \notin SentenceEndClass
    THEN <<complete_sentences, remaining_text>>
    ELSE LET end_pos == CHOOSE i \in DOMAIN remaining_text :
                            /\ remaining_text[i] \in SentenceEndClass
                            /\ \A j \in 1..(i - 1) :
                                   remaining_text[j] \notin SentenceEndClass
             potential_sentence == Strip(Slice(remaining_text, 0, end_pos))
             rest == LStrip(From(remaining_text, end_pos))
         IN IF \E abbrev \in ABBREVIATIONS : EndsWith(potential_sentence, abbrev)
            THEN regex_loop(rest, complete_sentences)
            ELSE regex_loop(rest, Append(complete_sentences, potential_sentence))

segment_text_by_regex(text) ==
    IF text = <<>> THEN << <<>>, <<>> >> ELSE regex_loop(Strip(text), <<>>)

\* The pattern ^(\d+[.)）、]?|\(\d+\)|[①-⑳])$
CircledNumbers ==
    {"u2460", "u2461", "u2462", "u2463", "u2464", "u2465", "u2466", "u2467",
     "u2468", "u2469", "u246A", "u246B", "u246C", "u246D", "u246E", "u246F",
     "u2470", "u2471", "u2472", "u2473"}

is_isolated_number(stripped) ==
    LET d == LeadingDigits(stripped)
    IN \/ d > 0 /\ Len(stripped) = d
       \/ /\ d > 0 /\ Len(stripped) = d + 1
          /\ stripped[d + 1] \in {".", ")", "uFF09", "u3001"}
       \/ /\ Len(stripped) >= 3
          /\ Head(stripped) = "("
          /\ stripped[Len(stripped)] = ")"
          /\ LeadingDigits(Tail(stripped)) = Len(stripped) - 2
       \/ Len(stripped) = 1 /\ Head(stripped) \in CircledNumbers

\* SentenceDivider._merge_isolated_numbers
RECURSIVE merge_loop(_, _, _)
merge_loop(sentences, pending, merged) ==
    IF sentences = <<>>
    THEN IF pending # <<>> THEN Append(merged, Strip(pending)) ELSE merged
    ELSE LET sentence == Head(sentences)
             stripped == Strip(sentence)
         IN IF is_isolated_number(stripped)
            THEN merge_loop(Tail(sentences), stripped \o <<" ">>, merged)
            ELSE IF pending # <<>>
            THEN merge_loop(Tail(sentences), <<>>,
                            Append(merged, pending \o stripped))
            ELSE merge_loop(Tail(sentences), <<>>, Append(merged, sentence))

merge_isolated_numbers(sentences) == merge_loop(sentences, <<>>, <<>>)

\* SentenceDivider._remove_trailing_punctuation, for one sentence.
remove_trailing_punctuation(sentence) ==
    LET stripped == RStrip(sentence)
    IN IF EndsWith(stripped, <<"u3002">>) \/ EndsWith(stripped, <<"uFF0C">>)
       THEN SubSeq(stripped, 1, Len(stripped) - 1)
       ELSE stripped

\* The loop of SentenceDivider._segment_text over the lines from line i.
RECURSIVE segment_lines(_, _, _)
segment_lines(lines, i, all_sentences) ==
    IF i > Len(lines) THEN <<all_sentences, <<>> >>
    ELSE LET line == Strip(lines[i])
             r == segment_text_by_regex(line)
         IN IF i = Len(lines)
            THEN IF line = <<>> THEN <<all_sentences, <<>> >>
                 ELSE <<all_sentences \o r[1], r[2]>>
            ELSE IF line = <<>> THEN segment_lines(lines, i + 1, all_sentences)
            ELSE segment_lines(lines, i + 1,
                               all_sentences \o r[1] \o
                                   (IF Strip(r[2]) # <<>>
                                    THEN <<Strip(r[2])>> ELSE <<>>))

\* SentenceDivider._segment_text
segment_text(text) ==
    LET r == segment_lines(SplitLines(text, <<>>), 1, <<>>)
        merged == merge_isolated_numbers(r[1])
    IN << [k \in DOMAIN merged |-> remove_trailing_punctuation(merged[k])],
          r[2] >>

\* TagInfo: a tag name and its TagState.
TagInfo(name, state) == [name |-> name, state |-> state]

\* [TagInfo("", TagState.NONE)]: the tags of a unit outside every tag.
NoTags == <<TagInfo(<<>>, "none")>>

\* The sentence unit process_stream yields for a text.
SentenceWithTags(text, tags, tts_text) ==
    [kind |-> "sentence", text |-> text, tags |-> tags,
     tts_text |-> tts_text]

\* tts_text of a unit that has none.
NoTtsText == <<"<None>">>

\* The units of the sentences that are not blank.
RECURSIVE Units(_, _)
Units(sentences, tags) ==
    IF sentences = <<>> THEN <<>>
    ELSE IF Strip(Head(sentences)) # <<>>
    THEN <<SentenceWithTags(Strip(Head(sentences)), tags, NoTtsText)>>
             \o Units(Tail(sentences), tags)
    ELSE Units(Tail(sentences), tags)

\* SentenceDivider.valid_tags of the dividers explored: the think tag and
\* one more, so that a closing tag can meet another tag on the stack.
Think == <<"t", "h", "i", "n", "k">>
Note == <<"n">>
valid_tags == <<Think, Note>>

TagStart(tag) == <<"<">> \o tag \o <<">">>
TagEnd(tag) == <<"<", "/">> \o tag \o <<">">>
TagSelfClosing(tag) == <<"<">> \o tag \o <<"/", ">">>

\* The patterns searched for, with the name and the TagState they stand for.
TagPatterns ==
    UNION { { [pattern |-> TagSelfClosing(valid_tags[k]),
               name |-> valid_tags[k], state |-> "self"],
              [pattern |-> TagStart(valid_tags[k]),
               name |-> valid_tags[k], state |-> "start"],
              [pattern |-> TagEnd(valid_tags[k]),
               name |-> valid_tags[k], state |-> "end"] } :
            k \in DOMAIN valid_tags }

\* The patterns that stand in the text.
TagsIn(text) == {p \in TagPatterns : Find(text, p.pattern) # -1}

\* The pattern that stands first in a text that holds one.
first_tag(text) ==
    CHOOSE p \in TagsIn(text) :
        \A q \in TagsIn(text) : Find(text, p.pattern) <= Find(text, q.pattern)

\* _process_buffer: next_tag_pos.
next_tag_pos(buf) ==
    IF TagsIn(buf) = {} THEN Len(buf) ELSE Find(buf, first_tag(buf).pattern)

\* _get_current_tags
get_current_tags(stack) ==
    [k \in DOMAIN stack |-> TagInfo(stack[k].name, "inside")]

\* current_tags or [TagInfo("", TagState.NONE)]
current_tags(stack) ==
    IF stack = <<>> THEN NoTags ELSE get_current_tags(stack)

\* The stack of _extract_tag with a closing tag that pops whatever is on top.
tag_stack_after_pop_any(p, stack) ==
    IF p.state = "start" THEN Append(stack, TagInfo(p.name, "start"))
    ELSE IF p.state = "end" /\ stack # <<>>
    THEN SubSeq(stack, 1, Len(stack) - 1)
    ELSE stack

\* _extract_tag: the stack after the tag found.
tag_stack_after(p, stack) ==
    IF p.state = "start" THEN Append(stack, TagInfo(p.name, "start"))
    ELSE IF p.state = "end"
    THEN IF stack = <<>> \/ stack[Len(stack)].name # p.name
         THEN stack
         ELSE SubSeq(stack, 1, Len(stack) - 1)
    ELSE stack

\* _extract_tag for a text that holds a tag: the TagInfo, the text after the
\* tag without its leading whitespace, and the stack.
extract_tag(text, stack) ==
    LET p == first_tag(text)
    IN [tag |-> TagInfo(p.name, p.state),
        remaining |-> LStrip(From(text, Find(text, p.pattern)
                                            + Len(p.pattern))),
        stack |-> tag_stack_after(p, stack)]

\* _process_buffer: the unit yielded for the tag itself.
tag_unit(buf, e) ==
    SentenceWithTags(Strip(Slice(buf, 0, Len(buf) - Len(e.remaining))),
                     <<e.tag>>, NoTtsText)

\* SentenceDivider._process_buffer: the loop runs until a pass handles
\* nothing.  The result is the buffer left, _is_first_sentence, the tag
\* stack and the units yielded.  process_pass is one pass, given what
\* comma_splitter and _segment_text return for the buffer.
RECURSIVE process_buffer(_, _, _, _, _)
RECURSIVE process_pass(_, _, _, _, _, _, _)
process_pass(buf, first, faster, stack, out, split, segmented) ==
    LET pos == next_tag_pos(buf)
        text_before_tag == Slice(buf, 0, pos)
    IN IF 0 < pos /\ pos < Len(buf)
          /\ contains_end_punctuation(text_before_tag)
       THEN process_buffer(From(buf, pos), first, faster, stack,
                out \o Units(segment_text(text_before_tag)[1],
                             current_tags(stack)))
       ELSE IF 0 < pos /\ pos < Len(buf) /\ Strip(text_before_tag) # <<>>
       THEN process_buffer(From(buf, pos), first, faster, stack,
                Append(out, SentenceWithTags(Strip(text_before_tag),
                                             current_tags(stack), NoTtsText)))
       ELSE IF pos < Len(buf)
       THEN process_buffer(extract_tag(buf, stack).remaining, first, faster,
                extract_tag(buf, stack).stack,
                Append(out, tag_unit(buf, extract_tag(buf, stack))))
       ELSE IF first /\ faster /\ contains_comma(buf) /\ Strip(split[1]) # <<>>
       THEN process_buffer(split[2], FALSE, faster, stack,
                Append(out, SentenceWithTags(Strip(split[1]),
                                             current_tags(stack), NoTtsText)))
       ELSE IF contains_end_punctuation(buf) /\ segmented[1] # <<>>
       THEN process_buffer(segmented[2], FALSE, faster, stack,
                out \o Units(segmented[1], current_tags(stack)))
       ELSE [buffer |-> buf, first |-> first, stack |-> stack, out |-> out]

process_buffer(buf, first, faster, stack, out) ==
    IF Strip(buf) = <<>>
    THEN [buffer |-> buf, first |-> first, stack |-> stack, out |-> out]
    ELSE process_pass(buf, first, faster, stack, out,
                      comma_splitter(buf), segment_text(buf))

\* SentenceDivider._flush_buffer, given what _process_buffer left.
flush_fragment(r) ==
    IF Strip(r.buffer) # <<>>
    THEN [buffer |-> <<>>, first |-> r.first, stack |-> r.stack,
          out |-> Append(r.out, SentenceWithTags(Strip(r.buffer),
                                                 current_tags(r.stack),
                                                 NoTtsText))]
    ELSE r

flush_buffer(buf, first, faster, stack) ==
    flush_fragment(process_buffer(buf, first, faster, stack, <<>>))

(***************************************************************************)
(* The divider in dual-stream mode: the buffer is searched for pairs       *)
(* <show>X</show><say>Y</say>.                                             *)
(***************************************************************************)
ShowOpen == <<"<", "s", "h", "o", "w", ">">>
ShowClose == <<"<", "/", "s", "h", "o", "w", ">">>
SayOpen == <<"<", "s", "a", "y", ">">>
SayClose == <<"<", "/", "s", "a", "y", ">">>

\* w stands in t at index i (from 0).
At(t, w, i) == i >= 0 /\ i + Len(w) <= Len(t) /\ SubSeq(t, i + 1, i + Len(w)) = w

\* The index after the whitespace that begins at index i.
RECURSIVE SkipWhitespace(_, _)
SkipWhitespace(t, i) ==
    IF i < Len(t) /\ t[i + 1] \in Whitespace THEN SkipWhitespace(t, i + 1) ELSE i

\* The matches of <show>(.*?)</show>\s*<say>(.*?)</say> in t: where the
\* show tag opens, where it closes and where the say tag closes.
DualMatches(t) ==
    LET opens == { i \in 0..Len(t) : At(t, ShowOpen, i) }
        closes(i) ==
            { j \in (i + Len(ShowOpen))..Len(t) :
                /\ At(t, ShowClose, j)
                /\ At(t, SayOpen, SkipWhitespace(t, j + Len(ShowClose))) }
        ends(j) ==
            { k \in (SkipWhitespace(t, j + Len(ShowClose)) + Len(SayOpen))..Len(t) :
                At(t, SayClose, k) }
    IN UNION { UNION { { <<i, j, k>> : k \in ends(j) } : j \in closes(i) } :
               i \in opens }

\* _dual_stream_pattern.search: the leftmost match, with the shortest
\* groups.
dual_stream_search(t) ==
    CHOOSE m \in DualMatches(t) :
        \A n \in DualMatches(t) :
            \/ m[1] < n[1]
            \/ m[1] = n[1] /\ m[2] < n[2]
            \/ m[1] = n[1] /\ m[2] = n[2] /\ m[3] <= n[3]

\* SentenceDivider._process_dual_stream_buffer
RECURSIVE process_dual_stream_buffer(_, _, _)
process_dual_stream_buffer(buf, first, out) ==
    IF DualMatches(buf) = {}
    THEN [buffer |-> buf, first |-> first, out |-> out]
    ELSE LET m == dual_stream_search(buf)
             say_start == SkipWhitespace(buf, m[2] + Len(ShowClose)) + Len(SayOpen)
             display_text == Strip(Slice(buf, m[1] + Len(ShowOpen), m[2]))
             tts_text == Strip(Slice(buf, say_start, m[3]))
         IN process_dual_stream_buffer(
                From(buf, m[3] + Len(SayClose)), FALSE,
                Append(out, SentenceWithTags(display_text, NoTags, tts_text)))

\* The first index at or after i where w stands in t, -1 when there is
\* none.
FindFrom(t, w, i) ==
    IF \E j \in i..Len(t) : At(t, w, j)
    THEN CHOOSE j \in i..Len(t) :
            At(t, w, j) /\ \A k \in i..(j - 1) : ~At(t, w, k)
    ELSE -1

\* The group of <show>(.*?)(?:</show>|$) for a show tag that opens at
\* index show and closes at index close (-1: it does not close).
show_group(remaining, show, close) ==
    Strip(Slice(remaining, show + Len(ShowOpen),
                IF close = -1 THEN Len(remaining) ELSE close))

\* The texts that are not empty.
NonEmpty(texts) == SelectSeq(texts, LAMBDA t : t # <<>>)

\* The text _flush_dual_stream_buffer yields of what is left in the
\* buffer.
flush_remaining_text(remaining, show) ==
    IF remaining = <<>> THEN <<>>
    ELSE IF show # -1
    THEN NonEmpty(<<show_group(remaining, show,
                               FindFrom(remaining, ShowClose,
                                        show + Len(ShowOpen)))>>)
    ELSE IF Head(remaining) # "<"
    THEN <<remaining>>
    ELSE <<>>

\* A unit whose tts_text is its text.
SpokenAsShown(texts) ==
    [k \in DOMAIN texts |-> SentenceWithTags(texts[k], NoTags, texts[k])]

\* SentenceDivider._flush_dual_stream_buffer, given what
\* _process_dual_stream_buffer left.
flush_dual_rest(r, remaining) ==
    [buffer |-> <<>>, first |-> r.first,
     out |-> r.out \o SpokenAsShown(flush_remaining_text(
                          remaining, FindFrom(remaining, ShowOpen, 0)))]

flush_dual_left(r) == flush_dual_rest(r, Strip(r.buffer))

flush_dual_stream_buffer(buf, first) ==
    flush_dual_left(process_dual_stream_buffer(buf, first, <<>>))

(***************************************************************************)
(* SentenceDivider.process_stream: one action for each item of the stream  *)
(* and one for its end.  What is yielded is kept with the number of the    *)
(* item that was being handled (the end of the stream counts as one more   *)
(* item).                                                                  *)
(***************************************************************************)
TextItem(text) == [kind |-> "text", text |-> text]
RecordItem(data) == [kind |-> "record", data |-> data]

\* The units the buffer gives in the mode of the divider.
process_in_mode(buf) ==
    IF dual_stream_mode
    THEN process_dual_stream_buffer(buf, is_first_sentence, <<>>)
    ELSE process_buffer(buf, is_first_sentence, faster_first_response,
                        tag_stack, <<>>)

flush_in_mode(buf) ==
    IF dual_stream_mode
    THEN flush_dual_stream_buffer(buf, is_first_sentence)
    ELSE flush_buffer(buf, is_first_sentence, faster_first_response,
                      tag_stack)

Stamped(items, n) == [k \in DOMAIN items |-> [item |-> items[k], at |-> n]]

\* A record that is not passed on.
drop_item(item) == <<>>

\* yield item
yield_item(item) == <<item>>

cfgDivVars == <<segment_stream, faster_first_response, dual_stream_mode>>

\* An item of the stream is a string.
StrItem ==
    /\ ~flushed
    /\ stream_index < Len(segment_stream)
    /\ segment_stream[stream_index + 1].kind = "text"
    /\ \E r \in {process_in_mode(divider_buffer
                                  \o segment_stream[stream_index + 1].text)} :
          /\ divider_buffer' = r.buffer
          /\ is_first_sentence' = r.first
          /\ tag_stack' = IF dual_stream_mode THEN tag_stack ELSE r.stack
          /\ emitted' = emitted \o Stamped(r.out, stream_index + 1)
    /\ stream_index' = stream_index + 1
    /\ UNCHANGED <<cfgDivVars, flushed, sentence_outputs>>
    /\ UNCHANGED <<turnVars, ctlVars, rateVars, durVars, inputVars>>

\* An item of the stream is a dict: the buffer is processed, then the dict
\* is yielded.
DictItem ==
    /\ ~flushed
    /\ stream_index < Len(segment_stream)
    /\ segment_stream[stream_index + 1].kind = "record"
    /\ \E r \in {process_in_mode(divider_buffer)} :
          /\ divider_buffer' = r.buffer
          /\ is_first_sentence' = r.first
          /\ tag_stack' = IF dual_stream_mode THEN tag_stack ELSE r.stack
          /\ emitted' =
                emitted
                    \o Stamped(r.out \o yield_item(segment_stream[stream_index + 1]),
                               stream_index + 1)
    /\ stream_index' = stream_index + 1
    /\ UNCHANGED <<cfgDivVars, flushed, sentence_outputs>>
    /\ UNCHANGED <<turnVars, ctlVars, rateVars, durVars, inputVars>>

\* The stream ends: the buffer is flushed.
StreamEnd ==
    /\ ~flushed
    /\ stream_index = Len(segment_stream)
    /\ \E r \in {flush_in_mode(divider_buffer)} :
          /\ divider_buffer' = r.buffer
          /\ is_first_sentence' = r.first
          /\ tag_stack' = IF dual_stream_mode THEN tag_stack ELSE r.stack
          /\ emitted' = emitted \o Stamped(r.out, stream_index + 1)
    /\ flushed' = TRUE
    /\ UNCHANGED <<cfgDivVars, stream_index, sentence_outputs>>
    /\ UNCHANGED <<turnVars, ctlVars, rateVars, durVars, inputVars>>

\* The fragments of scenario S1.
HelloWor ==
    <<"H", "e", "l", "l", "o", " ", "w", "o", "r">>
LdHowAre ==
    <<"l", "d", ".", " ", "H", "o", "w", " ", "a", "r", "e", " ">>
You ==
    <<"y", "o", "u", "?">>
S1Stream == <<TextItem(HelloWor), TextItem(LdHowAre), TextItem(You)>>

\* The input of scenario S2.
WellBold ==
    <<"W", "e", "l", "l", ",", " ", "t", "h", "i", "s", " ", "i", "s", " ",
      "*", "*", "b", "o", "l", "d", ",", " ", "e", "m", "p", "h", "a", "s",
      "i", "s", "*", "*", ",", " ", "r", "i", "g", "h", "t", ".">>
S2Stream == <<TextItem(WellBold)>>

\* The model output of scenario S6.
ShowSay ==
    <<"<", "s", "h", "o", "w", ">", "*", "*", "H", "e", "l", "l", "o", "*",
      "*", ",", " ", "w", "o", "r", "l", "d", ".", "<", "/", "s", "h", "o",
      "w", ">", "<", "s", "a", "y", ">", "H", "i", " ", "t", "h", "e", "r",
      "e", ".", "<", "/", "s", "a", "y", ">">>
S6Stream == <<TextItem(ShowSay)>>

\* Longest stream of items explored besides the scenarios.
MaxItems == 3

\* The text fragments the streams are built from.
Fragments ==
    { <<"a", ".">>, <<"b">>, <<" ">>, <<"c", "u3002">>, <<"1", ".">>,
      <<"M", "r", ".">>, <<"d", ",", " ">>,
      ShowOpen \o <<"a">> \o ShowClose, SayOpen \o <<"b", ".">> \o SayClose }

\* The records of the streams.
Records == {1, 2}

Items == {TextItem(f) : f \in Fragments} \cup {RecordItem(d) : d \in Records}

SegmentStreams ==
    SeqsUpTo(Items, MaxItems) \cup {S1Stream, S2Stream, S6Stream}

\* reset() at the start of process_stream.
DividerReset ==
    /\ stream_index = 0
    /\ divider_buffer = <<>>
    /\ tag_stack = <<>>
    /\ is_first_sentence = TRUE
    /\ emitted = <<>>
    /\ flushed = FALSE
    /\ sentence_outputs = <<>>

InitDivider ==
    /\ TurnAtRest /\ CtlAtRest /\ RateAtRest /\ DurAtRest /\ InputAtRest
    /\ segment_stream \in SegmentStreams
    /\ dual_stream_mode \in BOOLEAN
    /\ IF dual_stream_mode
       THEN faster_first_response = TRUE
       ELSE faster_first_response \in BOOLEAN
    /\ DividerReset

NextDivider ==
    \/ StrItem
    \/ DictItem
    \/ StreamEnd

SpecDivider == InitDivider /\ [][NextDivider]_vars

\* The records among items, in order.
RecordsOf(items) == SelectSeq(items, LAMBDA x : x.kind = "record")

\* What was yielded, without the item numbers.
Yielded == [k \in DOMAIN emitted |-> emitted[k].item]

\* The texts of the sentences yielded, in order.
SentenceTexts ==
    LET units == SelectSeq(Yielded, LAMBDA x : x.kind = "sentence")
    IN [k \in DOMAIN units |-> units[k].text]

\* C14: process_stream yields every record exactly once, unchanged and in
\* the order of the stream, and in its place among the sentences: what
\* was yielded before the record was formed from the items before it, what
\* is yielded after it is yielded while a later item is handled.
C14_RecordsKeepTheirPlace ==
    /\ RecordsOf(Yielded) = RecordsOf(SubSeq(segment_stream, 1, stream_index))
    /\ \A j \in DOMAIN emitted :
          emitted[j].item.kind = "record" =>
              /\ emitted[j].at \in DOMAIN segment_stream
              /\ segment_stream[emitted[j].at] = emitted[j].item
              /\ \A i \in 1..(j - 1) : emitted[i].at <= emitted[j].at
              /\ \A i \in (j + 1)..Len(emitted) : emitted[i].at > emitted[j].at

\* A stream was handled to its end and a record was yielded between two
\* sentences.
C14_Witness ==
    /\ flushed
    /\ \E j \in 2..(Len(emitted) - 1) :
          /\ emitted[j].item.kind = "record"
          /\ emitted[j - 1].item.kind = "sentence"
          /\ emitted[j + 1].item.kind = "sentence"

\* The text fed to the divider.
RECURSIVE Concat(_)
Concat(texts) == IF texts = <<>> THEN <<>> ELSE Head(texts) \o Concat(Tail(texts))

FedText ==
    LET items == SelectSeq(segment_stream, LAMBDA x : x.kind = "text")
    IN Concat([k \in DOMAIN items |-> items[k].text])

\* A text without its whitespace and its ideographic full stops and commas.
Squash(t) == SelectSeq(t, LAMBDA c : c \notin Whitespace \cup {"u3002", "uFF0C"})

\* C15: in sentence mode, when the stream has ended, the sentences yielded
\* hold, in order, every character of the text fed, but for whitespace and
\* ideographic full stops and commas.
C15_NoCharacterLost ==
    (flushed /\ ~dual_stream_mode)
        => Squash(Concat(SentenceTexts)) = Squash(FedText)

HelloWorld ==
    <<"H", "e", "l", "l", "o", " ", "w", "o", "r", "l", "d", ".">>
HowAreYou ==
    <<"H", "o", "w", " ", "a", "r", "e", " ", "y", "o", "u", "?">>

\* C16: in sentence mode the fragments "Hello wor", "ld. How are ", "you?"
\* give exactly the sentences "Hello world." and "How are you?".
C16_HelloWorldHowAreYou ==
    (segment_stream = S1Stream /\ ~dual_stream_mode /\ flushed)
        => SentenceTexts = <<HelloWorld, HowAreYou>>

Well ==
    <<"W", "e", "l", "l">>
ThisIsBold ==
    <<"t", "h", "i", "s", " ", "i", "s", " ", "*", "*", "b", "o", "l", "d",
      ",", " ", "e", "m", "p", "h", "a", "s", "i", "s", "*", "*">>
Right ==
    <<"r", "i", "g", "h", "t">>

\* C18: with faster_first_response the input "Well, this is **bold,
\* emphasis**, right." is yielded as "Well", then "this is **bold,
\* emphasis**" and "right".
C18_BoldCommaNotSplit ==
    (/\ segment_stream = S2Stream /\ ~dual_stream_mode
     /\ faster_first_response /\ flushed)
        => SentenceTexts = <<Well, ThisIsBold, Right>>

(***************************************************************************)
(* The stages after the divider (agent/transformers.py): display_processor *)
(* and tts_filter take the items the divider yields one by one.  The units *)
(* explored carry a think tag or a tts_text, so tts_filter never calls     *)
(* filter_text.                                                            *)
(***************************************************************************)
\* any(tag.name == "think" for tag in sentence.tags)
HasThinkTag(sentence) ==
    \E k \in DOMAIN sentence.tags : sentence.tags[k].name = Think

\* display_processor: the loop over the tags, from the tag at index k on.
RECURSIVE display_text_from(_, _, _)
display_text_from(tags, k, text) ==
    IF k > Len(tags) THEN text
    ELSE display_text_from(tags, k + 1,
             IF tags[k].name = Think /\ tags[k].state = "start" THEN <<"(">>
             ELSE IF tags[k].name = Think /\ tags[k].state = "end" THEN <<")">>
             ELSE text)

\* display_processor: the display text of a unit.
display_processor(sentence) ==
    display_text_from(sentence.tags, 1, sentence.text)

\* The output of the tts_filter stage for a unit.
SentenceOutput(display_text, tts_text) ==
    [kind |-> "output", display_text |-> display_text, tts_text |-> tts_text]

\* tts_filter with the tts_text of the unit tested before its think tag.
tts_filter_say_first(item) ==
    IF item.kind = "record" THEN item
    ELSE IF item.tts_text # NoTtsText
    THEN SentenceOutput(display_processor(item), item.tts_text)
    ELSE SentenceOutput(display_processor(item), <<>>)

\* tts_filter for a unit that carries a think tag or a tts_text; a dict
\* passes through.
tts_filter(item) ==
    IF item.kind = "record" THEN item
    ELSE IF HasThinkTag(item)
    THEN SentenceOutput(display_processor(item), <<>>)
    ELSE SentenceOutput(display_processor(item), item.tts_text)

\* live2d_model.extract_emotion: the emotion tags of the text.
extract_emotion(text) == SelectSeq(text, LAMBDA c : c = "[e]")

\* An actions_extractor that gives every item its actions, dicts too.
actions_extractor_marks_all(item) == [actions |-> <<>>] @@ item

\* actions_extractor: a unit gets its actions (the expressions of its text
\* unless it is an opening or closing tag); a dict passes through.
actions_extractor(item) ==
    IF item.kind = "record" THEN item
    ELSE [actions |->
             IF \E k \in DOMAIN item.tags :
                    item.tags[k].state \in {"start", "end"}
             THEN <<>>
             ELSE extract_emotion(item.text)] @@ item

\* The display_processor stage: a unit gets its display text; a dict
\* passes through.
display_processor_stage(item) ==
    IF item.kind = "record" THEN item
    ELSE [display |-> display_processor(item)] @@ item

\* The chain of the stages after the divider, for one item.
transformer_chain(item) ==
    tts_filter(display_processor_stage(actions_extractor(item)))

\* The stages take the next item the divider yielded.
TtsFilterStage ==
    /\ Len(sentence_outputs) < Len(emitted)
    /\ \E item \in {emitted[Len(sentence_outputs) + 1].item} :
          /\ item.kind = "sentence"
                => HasThinkTag(item) \/ item.tts_text # NoTtsText
          /\ sentence_outputs' =
                Append(sentence_outputs, transformer_chain(item))
    /\ UNCHANGED <<cfgDivVars, stream_index, divider_buffer, tag_stack,
                   is_first_sentence,
                   emitted, flushed>>
    /\ UNCHANGED <<turnVars, ctlVars, rateVars, durVars, inputVars>>

\* A short pair <show>a</show><say>b.</say>.
ShowSayPair ==
    ShowOpen \o <<"a">> \o ShowClose \o SayOpen \o <<"b", ".">> \o SayClose

\* The output of scenario S6 in one fragment, in two fragments, and in two
\* fragments with a record between them.
PipelineStreams ==
    {S6Stream}
        \cup { <<TextItem(ShowSayPair), RecordItem(d), TextItem(ShowSayPair)>> :
               d \in Records }
        \cup { <<TextItem(SubSeq(ShowSay, 1, n)),
                 TextItem(SubSeq(ShowSay, n + 1, Len(ShowSay)))>> :
               n \in 1..(Len(ShowSay) - 1) }
        \cup { <<TextItem(SubSeq(ShowSay, 1, n)), RecordItem(d),
                 TextItem(SubSeq(ShowSay, n + 1, Len(ShowSay)))>> :
               n \in 1..(Len(ShowSay) - 1), d \in Records }

InitPipeline ==
    /\ TurnAtRest /\ CtlAtRest /\ RateAtRest /\ DurAtRest /\ InputAtRest
    /\ segment_stream \in PipelineStreams
    /\ dual_stream_mode = TRUE
    /\ faster_first_response = TRUE
    /\ DividerReset

NextPipeline ==
    \/ StrItem
    \/ DictItem
    \/ StreamEnd
    \/ TtsFilterStage

SpecPipeline == InitPipeline /\ [][NextPipeline]_vars

HelloDisplay ==
    <<"*", "*", "H", "e", "l", "l", "o", "*", "*", ",", " ", "w", "o", "r",
      "l", "d", ".">>
HiThere ==
    <<"H", "i", " ", "t", "h", "e", "r", "e">>

\* The stream ended and the stages took all the divider yielded.
PipelineDone == flushed /\ Len(sentence_outputs) = Len(emitted)

\* C17: in dual-stream mode the output
\* <show>**Hello**, world.</show><say>Hi there.</say> leaves the tts_filter
\* stage as one unit with display text "**Hello**, world." and tts_text
\* "Hi there".
C17_DualStreamUnit ==
    (FedText = ShowSay /\ dual_stream_mode /\ PipelineDone)
        => SelectSeq(sentence_outputs, LAMBDA x : x.kind = "output")
               = <<SentenceOutput(HelloDisplay, HiThere)>>

(***************************************************************************)
(* Claims about the sender task in single mode.                            *)
(***************************************************************************)
\* The payloads the sender task sent: in single mode every audio payload.
SenderSent == SelectSeq(sent, LAMBDA m : IsAudio(m) /\ ~m.merged)

\* C19: in single mode the sender sends the payloads in strictly increasing
\* sequence-number order from 0, none skipped and none sent twice, whatever
\* order the synthesis tasks finish in: the sequence numbers it sent are
\* 0, 1, ..., n-1, one per payload sent, and the payload sent under number k
\* is the one of the sentence _speak_single gave number k.
C19_SenderSendsInSequenceOrder ==
    ~merge_enabled =>
        /\ sender_task.sent_seqs
               = [k \in 1..Len(sender_task.sent_seqs) |-> k - 1]
        /\ Len(SenderSent) = Len(sender_task.sent_seqs)
        /\ \A k \in DOMAIN SenderSent : \A i \in DOMAIN tts_tasks :
               tts_tasks[i].sid = SenderSent[k].sid
                   => tts_tasks[i].seq = k - 1
        /\ sender_task.st = "running"
               => next_sequence_to_send = Len(sender_task.sent_seqs)

\* The synthesis of the third sentence finished first: its payload is held
\* back while the payloads 0 and 1 have been sent.
C19_Witness ==
    /\ ~merge_enabled
    /\ sender_task.sent_seqs = <<0, 1>>
    /\ 2 \in BufferedSeqs
    /\ Len(tts_tasks) = 3

(***************************************************************************)
(* Specification of one turn in single mode that nobody interrupts, with   *)
(* fairness: the event loop runs every coroutine that is ready (the turn,  *)
(* the sender task), every call of the synthesizer returns or raises, and  *)
(* wait_for_response returns.                                              *)
(***************************************************************************)
\* The sentences speak() gives a sequence number in single mode: one it
\* synthesizes and one it shows only.
LiveKinds == {Plain, Heading}

InitLive ==
    /\ agent_stream \in SeqsUpTo(LiveKinds, MaxSentences)
    /\ merge_enabled = FALSE
    /\ merge_max_sentences = 3
    /\ progressive_merge_enabled = TRUE
    /\ TurnStart

\* The steps of the turn's coroutine.
TurnStep ==
    \/ SendChainStart
    \/ SendThinking
    \/ AgentYield
    \/ AgentEnd
    \/ AgentRaise
    \/ FlushRemaining
    \/ Gather
    \/ Finalize
    \/ AckReceived
    \/ NoResponse
    \/ SendForceNew
    \/ SendChainEnd
    \/ TurnReturn

NextLive ==
    \/ TurnStep
    \/ SenderGet
    \/ SenderDrain
    \/ \E i \in 1..MaxSentences, ok \in BOOLEAN : TtsTaskFinish(i, ok)

SpecLive ==
    /\ InitLive
    /\ [][NextLive]_vars
    /\ WF_vars(TurnStep)
    /\ WF_vars(SenderGet)
    /\ WF_vars(SenderDrain)
    /\ \A i \in 1..MaxSentences :
           WF_vars(\E ok \in BOOLEAN : TtsTaskFinish(i, ok))

\* speak() gave sentence sid a sequence number: it has a synthesis task, or
\* its payload is queued, held back by the sender, or sent.
Assigned(sid) ==
    \/ \E i \in DOMAIN tts_tasks : tts_tasks[i].sid = sid
    \/ \E k \in DOMAIN payload_queue : payload_queue[k].payload.sid = sid
    \/ \E b \in sender_task.buffered : b.payload.sid = sid
    \/ \E k \in DOMAIN SenderSent : SenderSent[k].sid = sid

\* How many payloads of sentence sid the client was sent.
TimesSent(sid) ==
    Cardinality({k \in DOMAIN SenderSent : SenderSent[k].sid = sid})

\* C20: in single mode, absent cancellation, every sentence speak() gives a
\* sequence number is eventually sent to the client, and never twice; a
\* failed synthesis queues a silent payload under the same number.
C20_EverySentenceSentOnce ==
    \A sid \in 1..MaxSentences :
        /\ [](TimesSent(sid) <= 1)
        /\ Assigned(sid) ~> (TimesSent(sid) = 1)

(***************************************************************************)
(* Claims about the merge rounds.                                          *)
(***************************************************************************)
Min(a, b) == IF a < b THEN a ELSE b

\* How many merge-eligible sentences the flushes before flush k took.
FlushedBefore(k) == SumSeq([j \in 1..(k - 1) |-> Len(flushes[j])])

\* The number, counted from 1 among the merge-eligible sentences of the
\* turn, of the sentence that began the open round.
RoundStart == progressive_sentence_count - Len(merge_buffer) + 1

\* Flush k may be the flush of flush_remaining at the end of the turn (a
\* cancelled turn does not tell which flush its last one was).
IsFinalFlush(k) ==
    /\ k = Len(flushes)
    /\ flush.ret = "gather" \/ TurnEnded \/ pc = "cancelled"

\* C22: with progressive merge and cap c the round that begins with the
\* k-th merge-eligible sentence locks current_round_max = min(k, c), keeps
\* it while the round is open, and is flushed exactly when the buffer holds
\* that many sentences; with c = 3 the rounds flush at 1, 2, 3, 3, ...
C22_RoundLocksMinOfCountAndCap ==
    (merge_enabled /\ progressive_merge_enabled) =>
        /\ merge_buffer # <<>> =>
               /\ current_round_max = Min(RoundStart, merge_max_sentences)
               /\ Len(merge_buffer) < current_round_max
        /\ \A k \in DOMAIN flushes :
               LET size == Min(FlushedBefore(k) + 1, merge_max_sentences)
               IN IF IsFinalFlush(k)
                  THEN Len(flushes[k]) <= size
                  ELSE Len(flushes[k]) = size
        /\ merge_max_sentences = 3 =>
               \A k \in DOMAIN flushes :
                   ~IsFinalFlush(k) => Len(flushes[k]) = Min(k, 3)

\* The round that began with the fourth sentence is open with two sentences
\* and locked at 3, after the flushes of sizes 1 and 2.
C22_Witness ==
    /\ merge_enabled /\ progressive_merge_enabled
    /\ flushes = << <<1>>, <<2, 3>> >>
    /\ merge_buffer = <<4, 5>>
    /\ current_round_max = 3
    /\ progressive_sentence_count = 5

(***************************************************************************)
(* Claims about the end of a turn nobody interrupts.                       *)
(***************************************************************************)
\* C27: every turn that sent conversation-chain-start eventually sends
\* conversation-chain-end unless an interrupt cancels it, also when a
\* synthesis fails, the agent's stream raises or the wait for the playback
\* acknowledgement returns no response.
C27_ChainStartLeadsToChainEnd ==
    (Count("conversation-chain-start") > 0)
        ~> (Count("conversation-chain-end") > 0)

\* C26: backend-synth-complete is sent only after every audio payload of
\* the turn was sent: no audio payload follows it, whatever the interleaving
\* of the synthesis tasks, the sender task and the turn.
C26_SynthCompleteAfterAllAudio ==
    \A b \in PositionsOf("backend-synth-complete"), a \in DOMAIN sent :
        IsAudio(sent[a]) => a < b

(***************************************************************************)
(* Claims about a merge flush.                                             *)
(***************************************************************************)
\* The sentences of flush k.
FlushSids(k) == {flushes[k][j] : j \in DOMAIN flushes[k]}

\* The payloads the loop of flush k sent, in order.
MergedOf(k) ==
    SelectSeq(sent, LAMBDA m : IsAudio(m) /\ m.merged /\ m.sid \in FlushSids(k))

\* Every audio payload sent for a sentence of flush k, in order.
PayloadsOf(k) ==
    SelectSeq(sent, LAMBDA m : IsAudio(m) /\ m.sid \in FlushSids(k))

\* The synthesis calls made with the buffer of flush k.
CallsOf(k) == {c \in DOMAIN tts_calls : tts_calls[c] = flushes[k]}

\* Flush k went through: its loop sent a payload for every sentence.
FlushSucceeded(k) == Len(MergedOf(k)) = Len(flushes[k])

\* C24: a successful merge flush of N sentences makes exactly one synthesis
\* call, on the whole buffer, and sends exactly N payloads in buffer order,
\* the first with the audio and payloads 2..N without.
C24_OneCallFirstPayloadCarriesAudio ==
    merge_enabled =>
        \A k \in DOMAIN flushes :
            FlushSucceeded(k) =>
                /\ Cardinality(CallsOf(k)) = 1
                /\ PayloadsOf(k)
                       = [j \in DOMAIN flushes[k] |->
                             AudioPayload(flushes[k][j], j = 1, TRUE)]

\* A flush of three sentences went through.
C24_Witness ==
    /\ merge_enabled
    /\ \E k \in DOMAIN flushes : Len(flushes[k]) = 3 /\ FlushSucceeded(k)

\* What the client was sent for sentence sid, in order.
ShownFor(sid) == SelectSeq(sent, LAMBDA m : IsAudio(m) /\ m.sid = sid)

\* C25: when the merged synthesis fails, or processing or sending the
\* merged audio fails at any point, the flush still delivers the display
\* text of every buffered sentence exactly once and in buffer order: no
\* sentence is sent twice, and once the turn is over none was omitted.
C25_FailedFlushDeliversEachOnce ==
    merge_enabled =>
        \A k \in DOMAIN flushes :
            /\ \A j \in DOMAIN flushes[k] : Len(ShownFor(flushes[k][j])) <= 1
            /\ \A i, j \in DOMAIN PayloadsOf(k) :
                   i < j => PayloadsOf(k)[i].sid < PayloadsOf(k)[j].sid
            /\ (pc = "done" /\ ~cancel_requested) =>
                   \A j \in DOMAIN flushes[k] :
                       Len(ShownFor(flushes[k][j])) = 1

\* C23: when a turn ends without cancellation every sentence still in the
\* merge buffer is flushed, however few they are: the buffer is empty
\* before the end signals are sent, and no sentence that entered the buffer
\* is left unsent.
EndSignalsNext == pc \in {"force_new", "chain_end", "store", "done"}

C23_ResidualBufferFlushedAndSent ==
    (merge_enabled /\ ~cancel_requested /\ EndSignalsNext) =>
        /\ merge_buffer = <<>>
        /\ flush = NoFlush
        /\ \A sid \in 1..stream_pos :
               IsSpoken(agent_stream[sid])
                   => \E k \in DOMAIN flushes : sid \in FlushSids(k)
        /\ pc = "done" =>
               \A sid \in 1..stream_pos :
                   IsSpoken(agent_stream[sid]) => ShownFor(sid) # <<>>

(***************************************************************************)
(* Specification of one turn of a client and the interrupts of that client *)
(* (conversation_handler.handle_individual_interrupt): the turn of Spec is *)
(* the task stored in current_conversation_tasks[client_uid], the handler  *)
(* cancels it, waits for it at most 0.5 s, clears the handle, notifies the *)
(* agent and stores the interrupt markers.                                 *)
(***************************************************************************)
\* How many interrupts one behaviour holds.
MaxInterrupts == 1
\* Longest agent output stream explored under SpecInterrupt.
InterruptSentences == 2

\* heard_response of an interrupt-signal message: empty or some text.
HeardResponses == {<<>>, <<"a">>}

\* The number of the turn's task in current_conversation_tasks.
TurnTask == 1

\* No interrupt is being handled.  After a call the fields keep the call's
\* values: whether the turn's task was running on entry, the lengths of
\* history and agent_calls on entry and the length of sent on return.
InterruptIdle ==
    [pc |-> "idle", call |-> "none", heard_response |-> <<>>,
     was_running |-> FALSE, history_at_entry |-> 0, calls_at_entry |-> 0,
     sent_at_return |-> 0]

\* task.done() of the turn's task.
TurnTaskDone == pc \in {"done", "cancelled"}

\* The calls of handle_individual_interrupt so far.
Interrupts ==
    Len(SelectSeq(agent_calls, LAMBDA c : c.call = "handle_interrupt"))

\* An interrupt that stores its markers whenever there is a history.
persist_interrupt_any_heard(heard_response) == history_uid

\* "if context.history_uid and heard_response"
persist_interrupt(heard_response) == history_uid /\ heard_response # <<>>

\* handle_individual_interrupt from "current_conversation_tasks[client_uid]
\* = None" to its end: agent_engine.handle_interrupt(heard_response) and
\* reset_interrupt(), then the two markers.  The agent engine is not among
\* the sources: its two calls are recorded as made (the except clause
\* around them only logs).
\* A stop-word interrupt is followed by the trigger's control message.
interrupt_rest(h) ==
    /\ current_conversation_tasks' = TaskNone
    /\ agent_calls' = agent_calls
           \o <<[call |-> "handle_interrupt", arg |-> h.heard_response],
                [call |-> "reset_interrupt", arg |-> <<>>]>>
    /\ history' = IF persist_interrupt(h.heard_response)
                  THEN history \o <<AiMessage(h.heard_response),
                                    InterruptedByUser>>
                  ELSE history
    /\ handler' = [h EXCEPT !.pc = "idle", !.sent_at_return = Len(sent)]
    /\ handler_sent' = IF h.call = "trigger"
                       THEN Append(handler_sent, ControlInterrupt)
                       ELSE handler_sent

\* handle_individual_interrupt up to its wait_for: "if task and not
\* task.done()" the task is cancelled and awaited, otherwise the handler
\* runs to its end.
interrupt_turn(call, heard_response) ==
    LET h == [InterruptIdle EXCEPT
                 !.call = call, !.heard_response = heard_response,
                 !.was_running = (current_conversation_tasks = TurnTask
                                  /\ ~TurnTaskDone),
                 !.history_at_entry = Len(history),
                 !.calls_at_entry = Len(agent_calls)]
    IN /\ Interrupts < MaxInterrupts
       /\ IF h.was_running
          THEN /\ cancel_requested' = TRUE
               /\ handler' = [h EXCEPT !.pc = "interrupt_wait"]
               /\ UNCHANGED <<current_conversation_tasks, agent_calls,
                              history, handler_sent>>
          ELSE /\ interrupt_rest(h)
               /\ UNCHANGED cancel_requested
       /\ UNCHANGED <<conversation_tasks, received_data_buffers>>
       /\ UNCHANGED <<rateVars, durVars, divVars>>
       /\ UNCHANGED <<turn_input, wake_word_config, metadata, history_uid,
                      input_pc, transcript, input_text, input_sent>>
       /\ UNCHANGED <<cfgVars, mgrVars, stream_pos, pc, sent, ack>>

\* An interrupt-signal message with the text the client heard so far.
InterruptSignalTurn ==
    /\ handler.pc = "idle"
    /\ \E heard \in HeardResponses : interrupt_turn("interrupt", heard)

\* A stop word in a mic-audio-end: the trigger calls the handler with
\* heard_response="" (lines 121-126).
StopWordInterruptTurn ==
    /\ handler.pc = "idle"
    /\ interrupt_turn("trigger", <<>>)

\* wait_for(shield(task), 0.5) is over: the task ended within the timeout
\* (TurnWaitDone), or TimeoutError was swallowed and the task still runs
\* (TurnWaitTimeout).
interrupt_wait_over_turn ==
    /\ handler.pc = "interrupt_wait"
    /\ interrupt_rest(handler)
    /\ UNCHANGED <<conversation_tasks, received_data_buffers>>
    /\ UNCHANGED <<rateVars, durVars, divVars>>
    /\ UNCHANGED <<turn_input, wake_word_config, metadata, history_uid,
                   input_pc, transcript, input_text, input_sent>>
    /\ UNCHANGED turnVars

TurnWaitDone == TurnTaskDone /\ interrupt_wait_over_turn

\* The timeout is a real wait: a sender that is ready has run before it.
TurnWaitTimeout == ~TurnTaskDone /\ ~SenderMustRun /\ interrupt_wait_over_turn

\* The turn's task was created by a trigger and its handle stored.
InitInterrupt ==
    /\ agent_stream \in SeqsUpTo(LiveKinds, InterruptSentences)
    /\ merge_enabled \in BOOLEAN
    /\ merge_max_sentences = 2
    /\ progressive_merge_enabled = FALSE
    /\ stream_pos = 0
    /\ pc = "start"
    /\ cancel_requested = FALSE
    /\ sent = <<>>
    /\ tts_calls = <<>>
    /\ flushes = <<>>
    /\ ack = "none"
    /\ TTSTaskManagerInit
    /\ current_conversation_tasks = TurnTask
    /\ conversation_tasks = <<>>
    /\ received_data_buffers = <<>>
    /\ handler = InterruptIdle
    /\ handler_sent = <<>>
    /\ RateAtRest /\ DurAtRest /\ DivAtRest
    /\ turn_input = NoInput
    /\ wake_word_config = NoWakeWords
    /\ metadata = [skip_history |-> FALSE]
    /\ history_uid \in BOOLEAN
    /\ input_pc = "none"
    /\ transcript = NoTranscript
    /\ input_text = <<>>
    /\ input_sent = <<>>
    /\ agent_calls = <<>>
    /\ history = <<>>

NextInterrupt ==
    \/ SendChainStart
    \/ SendThinking
    \/ AgentYield
    \/ AgentEnd
    \/ AgentRaise
    \/ FlushRemaining
    \/ FlushSynthOk
    \/ FlushSynthFail
    \/ FlushSend
    \/ FlushSendFail
    \/ Gather
    \/ Finalize
    \/ AckReceived
    \/ NoResponse
    \/ SendForceNew
    \/ SendChainEnd
    \/ TurnReturn
    \/ TurnCancelled
    \/ SenderGet
    \/ SenderDrain
    \/ \E i \in 1..MaxSentences, ok \in BOOLEAN : TtsTaskFinish(i, ok)
    \/ InterruptSignalTurn
    \/ StopWordInterruptTurn
    \/ TurnWaitDone
    \/ TurnWaitTimeout

SpecInterrupt == InitInterrupt /\ [][NextInterrupt]_vars

(***************************************************************************)
(* Claims about the history a turn and its interrupts write.               *)
(***************************************************************************)
\* The agent's stream raised: the turn sent the error message.
StreamRaised == Count("error") > 0

\* The display text of the sentences the turn took from the stream.
PartialResponse == DisplayTexts(agent_stream, stream_pos)

\* No interrupt was handled or is being handled.
NeverInterrupted == handler = InterruptIdle /\ agent_calls = <<>>

\* C28: when the model's output stream raises, the turn sends one error
\* message, still flushes the merge buffer and awaits the synthesis tasks
\* already created, finalizes as a turn without error does, and stores the
\* response accumulated up to the error as the AI message (under the
\* condition of line 176: a history id and a non-empty response).
C28_StreamErrorStillFinalizesAndPersists ==
    (StreamRaised /\ pc = "done" /\ NeverInterrupted) =>
        /\ Count("error") = 1
        /\ merge_buffer = <<>>
        /\ merge_enabled =>
               \A sid \in 1..stream_pos :
                   IsSpoken(agent_stream[sid])
                       => \E k \in DOMAIN flushes : sid \in FlushSids(k)
        /\ \A i \in DOMAIN tts_tasks : tts_tasks[i].st = "done"
        /\ \A e \in PositionsOf("error"),
              b \in PositionsOf("backend-synth-complete") : e < b
        /\ \/ ack = "no_response"
           \/ /\ Count("force-new-message") = 1
              /\ Count("conversation-chain-end") = 1
        /\ history = IF history_uid /\ PartialResponse # <<>>
                     THEN <<AiMessage(PartialResponse)>>
                     ELSE <<>>

\* The stream raised after the first of two sentences; the first alone was
\* stored.
C28_Witness ==
    /\ StreamRaised /\ pc = "done" /\ NeverInterrupted
    /\ Len(agent_stream) = 2 /\ stream_pos = 1
    /\ Len(tts_tasks) = 1
    /\ history = <<AiMessage(agent_stream[1].display)>>

\* The 'ai' messages in the history.
AiMessages == SelectSeq(history, LAMBDA msg : msg.role = "ai")

\* C29: for a turn at most one 'ai' message is stored, the full response of
\* a turn that completed or the heard response of one that was interrupted,
\* whenever the interrupt-signal arrives.
C29_AtMostOneAiMessage == Len(AiMessages) <= 1

\* An interrupt was handled to its end and none is being handled.
InterruptReturned == handler.pc = "idle" /\ handler.call # "none"

\* What the last interrupt told the agent and what it stored.
CallsOfInterrupt ==
    SubSeq(agent_calls, handler.calls_at_entry + 1, Len(agent_calls))

StoredByInterrupt ==
    SubSeq(history, handler.history_at_entry + 1, Len(history))

C21_NothingSentAfterInterrupt ==
    (InterruptReturned /\ handler.was_running) =>
        /\ current_conversation_tasks = TaskNone
        /\ merge_buffer = <<>>
        /\ Len(sent) = handler.sent_at_return

(***************************************************************************)
(* Claims about the attempts of generate_audio.                            *)
(***************************************************************************)
\* The requests.post of worker c ends in this step.
AttemptEnds(c) == workers[c].pc = "post" /\ workers'[c].pc # "post"

\* C31: every HTTP attempt of generate_audio appends a timestamp to
\* request_times, whether it returned 200 or an error status, timed out or
\* raised a request error.
C31_EveryAttemptRecorded ==
    [][\A c \in Calls :
          AttemptEnds(c) => request_times' = DequeAppend(request_times, now)]_vars

(***************************************************************************)
(* Specification of the retry loop of generate_audio: a call that finds    *)
(* the async mutex free, and time long enough for three attempts that all  *)
(* time out.  Nobody queues for the mutex and no caller is cancelled here   *)
(* (SpecRate has both).                                                    *)
(***************************************************************************)
\* Calls of async_generate_audio explored.
RetryCalls == 1
\* What the limiter holds when the first call comes: nothing, or the records
\* of five requests that earlier calls have just made.
EarlierRequests == {<<>>, <<0, 0, 0, 0, 0>>}
\* Last instant explored: three timeouts of 60 s and two sleeps of 2 s.
RetryMaxTime == 370

RetryAdvanceTime ==
    /\ now < RetryMaxTime
    /\ Advance(RetryMaxTime)

InitRetry ==
    /\ TurnAtRest /\ CtlAtRest /\ DurAtRest /\ InputAtRest /\ DivAtRest
    /\ now = 0
    /\ request_times \in EarlierRequests
    /\ async_lock = [locked |-> 0, waiters |-> <<>>]
    /\ callers = [c \in 1..RetryCalls |-> "idle"]
    /\ workers = [c \in 1..RetryCalls |-> NoWorker]
    /\ http_starts = <<>>
    /\ cancels = 0

NextRetry ==
    \/ \E c \in Calls : Call(c)
    \/ \E c \in Calls : RateLimitEnter(c)
    \/ \E c \in Calls : RateLimit(c)
    \/ \E c \in Calls : RateWake(c)
    \/ \E c \in Calls, status \in {200, 429, 500} : Response(c, status)
    \/ \E c \in Calls : Timeout(c)
    \/ \E c \in Calls : RequestException(c)
    \/ \E c \in Calls : RetryWake(c)
    \/ \E c \in Calls : Return(c)
    \/ RetryAdvanceTime

SpecRetry == InitRetry /\ [][NextRetry]_vars

\* The calls whose generate_audio has started.
Started == {c \in Calls : workers[c].pc # "none"}

\* What holds of every call at every instant: the loop index stays below
\* max_retries, a sleep follows a 429 or a timeout only, and a call that is
\* over returned the file after a 200 and None after anything else.
AttemptsBounded ==
    /\ Len(http_starts) <= max_retries * Cardinality(Started)
    /\ \A c \in Calls :
          /\ workers[c].attempt < max_retries
          /\ workers[c].pc = "sleep_429" => workers[c].last = "429"
          /\ workers[c].pc = "sleep_timeout" => workers[c].last = "timeout"
          /\ workers[c].pc = "done" =>
                 /\ workers[c].result \in {"file", "none"}
                 /\ workers[c].result = "file" <=> workers[c].last = "200"

\* What holds of every step: a new attempt starts only out of a sleep that is
\* over, the sleep is 12 s after a 429 and 2 s after a timeout, and any other
\* end of an attempt ends the call.
RetriesOnlyAfterSleep ==
    \A c \in Calls :
        /\ workers'[c].attempt > workers[c].attempt =>
               /\ workers[c].pc \in {"sleep_429", "sleep_timeout"}
               /\ now >= workers[c].until
        /\ (AttemptEnds(c) /\ workers'[c].last = "429") =>
               /\ workers'[c].pc = "sleep_429"
               /\ workers'[c].until = now + RetryAfter429
        /\ (AttemptEnds(c) /\ workers'[c].pc = "sleep_timeout") =>
               workers'[c].until = now + RetryAfterTimeout
        /\ (AttemptEnds(c) /\ workers'[c].last \notin {"429", "timeout"}) =>
               workers'[c].pc = "done"

\* C32: one generate_audio call makes at most 3 HTTP attempts whatever their
\* outcomes; it retries only after a 429 (having slept 12 s) or a timeout
\* (having slept 2 s); any other status or request error ends the call with
\* None after that attempt, and so does the end of the attempts.
C32_AtMostThreeAttempts ==
    /\ []AttemptsBounded
    /\ [][RetriesOnlyAfterSleep]_vars

\* Three attempts that all timed out: the call returned None.
C32_Witness ==
    \E c \in Calls :
        /\ workers[c].pc = "done"
        /\ workers[c].attempt = max_retries - 1
        /\ workers[c].last = "timeout"
        /\ workers[c].result = "none"
        /\ Len(http_starts) = max_retries
        /\ now >= max_retries * PostTimeout + 2 * RetryAfterTimeout


\* ---------------------------------------------------------------------
\* Specification of the two locks of the rate limiter: the async mutex of
\* async_generate_audio and the sliding-window lock of RateLimiter
\* ---------------------------------------------------------------------

\* Calls of async_generate_audio that contend for the locks.
LockCalls == 2

InitLocks ==
    /\ TurnAtRest /\ CtlAtRest /\ DurAtRest /\ InputAtRest /\ DivAtRest
    /\ now = 0
    /\ request_times \in EarlierRequests
    /\ async_lock = [locked |-> 0, waiters |-> <<>>]
    /\ callers = [c \in 1..LockCalls |-> "idle"]
    /\ workers = [c \in 1..LockCalls |-> NoWorker]
    /\ http_starts = <<>>
    /\ cancels = 0

NextLocks ==
    \/ \E c \in Calls : Call(c)
    \/ \E c \in Calls : LockAcquire(c)
    \/ \E c \in Calls : RateLimitEnter(c)
    \/ \E c \in Calls : RateLimit(c)
    \/ \E c \in Calls : RateWake(c)
    \/ \E c \in Calls, status \in {200, 429, 500} : Response(c, status)
    \/ \E c \in Calls : Timeout(c)
    \/ \E c \in Calls : RequestException(c)
    \/ \E c \in Calls : RetryWake(c)
    \/ \E c \in Calls : Return(c)
    \/ \E c \in Calls : Cancel(c)
    \/ AdvanceTime

SpecLocks == InitLocks /\ [][NextLocks]_vars

\* ---------------------------------------------------------------------
\* Claims about the order of the two locks
\* ---------------------------------------------------------------------

\* Call c holds the async mutex of async_generate_audio.
HoldsMutex(c) == async_lock.locked = c

\* The thread of call c takes the sliding-window lock in this step.
TakesWindowLock(c) ==
    workers[c].pc # "window" /\ workers'[c].pc = "window"

\* Call c takes the async mutex in this step.
TakesMutex(c) == ~HoldsMutex(c) /\ HoldsMutex(c)'

WindowLockInsideMutex ==
    \A c \in Calls :
        workers[c].pc = "window"
            => HoldsMutex(c) \/ callers[c] = "cancelled"

ThinkOpen == <<"<", "t", "h", "i", "n", "k", ">">>

\* Units that carry a think tag: the opening tag itself, a sentence inside
\* the tag, and such a sentence with a tts_text of its own.
ThinkUnits ==
    { SentenceWithTags(ThinkOpen, <<TagInfo(Think, "start")>>, NoTtsText),
      SentenceWithTags(<<"a">>, <<TagInfo(Think, "inside")>>, NoTtsText),
      SentenceWithTags(<<"a">>, <<TagInfo(Think, "inside")>>, <<"b">>) }

\* A unit outside every tag, with a tts_text.
SpokenUnit == SentenceWithTags(<<"a">>, NoTags, <<"b">>)

\* The sentence output the turn receives for a unit, kept with the unit.
StreamOutput(unit) ==
    [tts |-> tts_filter(unit).tts_text,
     display |-> tts_filter(unit).display_text,
     unit |-> unit]

ThinkKinds == {StreamOutput(u) : u \in ThinkUnits \cup {SpokenUnit}}

InitThink ==
    /\ agent_stream \in SeqsUpTo(ThinkKinds, MaxSentences)
    /\ merge_enabled \in BOOLEAN
    /\ merge_max_sentences = 2
    /\ progressive_merge_enabled \in BOOLEAN
    /\ TurnStart

NextThink ==
    \/ SendChainStart
    \/ SendThinking
    \/ AgentYield
    \/ AgentEnd
    \/ AgentRaise
    \/ FlushRemaining
    \/ FlushSynthOk
    \/ FlushSynthFail
    \/ FlushSend
    \/ FlushSendFail
    \/ Gather
    \/ Finalize
    \/ AckReceived
    \/ NoResponse
    \/ SendForceNew
    \/ SendChainEnd
    \/ TurnReturn
    \/ SenderGet
    \/ SenderDrain
    \/ \E i \in 1..MaxSentences, ok \in BOOLEAN : TtsTaskFinish(i, ok)

SpecThink == InitThink /\ [][NextThink]_vars

\* The sentences speak() received that carry a think tag.
ThinkSids == {sid \in 1..stream_pos : HasThinkTag(agent_stream[sid].unit)}

\* C34: a sentence unit that carries a think tag leaves the transformer
\* chain with tts_text "", whatever its text and its own tts_text, and
\* speak() answers it with a silent display-only payload: it is in no
\* synthesis call, never enters the merge buffer and is not counted in the
\* progressive sentence count.
C34_ThinkUnitsAreSilent ==
    /\ \A sid \in DOMAIN agent_stream :
          HasThinkTag(agent_stream[sid].unit) => agent_stream[sid].tts = <<>>
    /\ \A sid \in ThinkSids :
          /\ \A k \in DOMAIN tts_calls : ~InSeq(sid, tts_calls[k])
          /\ \A i \in DOMAIN tts_tasks : tts_tasks[i].sid # sid
          /\ ~InSeq(sid, merge_buffer)
          /\ ~InSeq(sid, flush.copy)
          /\ \A i \in DOMAIN sent :
                sent[i].sid = sid => sent[i] = AudioPayload(sid, FALSE, FALSE)
          /\ pc \notin {"done", "cancelled"} => Queued(sid)
    /\ progressive_sentence_count <= stream_pos - Cardinality(ThinkSids)

\* Reached in merge mode: a sentence inside a think tag that has a tts_text
\* of its own came between two spoken sentences; the two were merged into
\* one synthesis call and the silent payload of the think sentence was sent.
C34_Witness ==
    /\ merge_enabled
    /\ stream_pos = 3
    /\ ThinkSids = {2}
    /\ agent_stream[2].unit.tts_text = <<"b">>
    /\ tts_calls = << <<1, 3>> >>
    /\ progressive_sentence_count = 2
    /\ InSeq(AudioPayload(2, FALSE, FALSE), sent)


(***************************************************************************)
(* Specification of the divider in sentence mode on streams that hold      *)
(* tags, with process_stream called again when a stream has ended.         *)
(***************************************************************************)
\* Longest stream of fragments and tags explored.
MaxTagItems == 3

TagFragments ==
    { <<"a", ".">>, <<"b">>, <<" ">>,
      <<"a", ".", " ", "b">> \o TagStart(Think),
      TagStart(Think), TagEnd(Think), TagSelfClosing(Think),
      TagStart(Note), TagEnd(Note) }

TagStreams == SeqsUpTo({TextItem(f) : f \in TagFragments}, MaxTagItems)

\* The streams of a later call of process_stream.
LaterStreams == SeqsUpTo({TextItem(f) : f \in TagFragments}, 1)

\* process_stream is called again: reset(), then the new stream is read.
ProcessStream ==
    /\ flushed
    /\ segment_stream' \in LaterStreams
    /\ stream_index' = 0
    /\ divider_buffer' = <<>>
    /\ tag_stack' = <<>>
    /\ is_first_sentence' = TRUE
    /\ emitted' = <<>>
    /\ flushed' = FALSE
    /\ UNCHANGED <<faster_first_response, dual_stream_mode, sentence_outputs>>
    /\ UNCHANGED <<turnVars, ctlVars, rateVars, durVars, inputVars>>

InitTags ==
    /\ TurnAtRest /\ CtlAtRest /\ RateAtRest /\ DurAtRest /\ InputAtRest
    /\ segment_stream \in TagStreams
    /\ dual_stream_mode = FALSE
    /\ faster_first_response \in BOOLEAN
    /\ DividerReset

NextTags ==
    \/ StrItem
    \/ StreamEnd
    \/ ProcessStream

SpecTags == InitTags /\ [][NextTags]_vars

(***************************************************************************)
(* Claims about tags in the divider.                                       *)
(***************************************************************************)
\* The unit is a tag itself.
IsTagUnit(unit) == unit.tags[1].state \in {"start", "end", "self"}

\* The text of the items of the stream read so far.
ReadText ==
    Concat([k \in 1..stream_index |-> segment_stream[k].text])

\* The texts of the first j units yielded, joined.
YieldedText(j) == Concat([k \in 1..j |-> emitted[k].item.text])

\* C35: when a tag stands in the buffer of the divider, all text before it
\* that is not whitespace is yielded, in order, before the unit of the tag,
\* and none of it is dropped: what was yielded up to the unit of a tag is
\* the text read up to that tag, but for whitespace.
C35_TextBeforeTagIsKept ==
    \A j \in DOMAIN emitted :
        IsTagUnit(emitted[j].item)
            => StartsWith(Squash(ReadText), Squash(YieldedText(j)))

\* The names on a stack.
Names(stack) == [k \in DOMAIN stack |-> stack[k].name]

\* Stack discipline: the names open after the tags of units, from names.
RECURSIVE Disciplined(_, _)
Disciplined(names, units) ==
    IF units = <<>> THEN names
    ELSE LET tag == Head(units).tags[1]
         IN Disciplined(
                IF tag.state = "start" THEN Append(names, tag.name)
                ELSE IF /\ tag.state = "end"
                        /\ names # <<>>
                        /\ names[Len(names)] = tag.name
                THEN SubSeq(names, 1, Len(names) - 1)
                ELSE names,
                Tail(units))

\* The units of tags among those yielded.
TagUnits(items) ==
    LET units == SelectSeq(items, LAMBDA x : IsTagUnit(x.item))
    IN [k \in DOMAIN units |-> units[k].item]

\* The stack follows the tags yielded in every step of a call, and a new
\* call begins with an empty stack.
StackFollowsTags ==
    IF flushed /\ ~flushed'
    THEN tag_stack' = <<>>
    ELSE Names(tag_stack')
            = Disciplined(Names(tag_stack),
                  TagUnits(SubSeq(emitted', Len(emitted) + 1, Len(emitted'))))

\* C37: the tag stack of the divider follows stack discipline: an opening
\* tag pushes its name, a closing tag that matches the innermost open tag
\* pops it, a self-closing tag and a closing tag that does not match the
\* innermost open tag (or meets an empty stack) leave the stack unchanged;
\* the stack is empty at the start of every process_stream call.
C37_TagStackDiscipline ==
    /\ [](stream_index = 0 /\ ~flushed => tag_stack = <<>>)
    /\ [](Names(tag_stack) = Disciplined(<<>>, TagUnits(emitted)))
    /\ [][StackFollowsTags]_vars

\* Reached: <think> was pushed, </n> did not match it and left the stack
\* unchanged, </think> popped it.
C37_Witness ==
    /\ flushed
    /\ TagUnits(emitted) =
          << SentenceWithTags(TagStart(Think), <<TagInfo(Think, "start")>>,
                              NoTtsText),
             SentenceWithTags(TagEnd(Note), <<TagInfo(Note, "end")>>,
                              NoTtsText),
             SentenceWithTags(TagEnd(Think), <<TagInfo(Think, "end")>>,
                              NoTtsText) >>
    /\ emitted[2].at = 2
    /\ tag_stack = <<>>


(***************************************************************************)
(* Claims about the divider in dual-stream mode.                           *)
(***************************************************************************)
\* A text without the show and say tags in it.
RECURSIVE WithoutMarkup(_)
WithoutMarkup(t) ==
    IF t = <<>> THEN <<>>
    ELSE IF StartsWith(t, ShowOpen) THEN WithoutMarkup(From(t, Len(ShowOpen)))
    ELSE IF StartsWith(t, ShowClose) THEN WithoutMarkup(From(t, Len(ShowClose)))
    ELSE IF StartsWith(t, SayOpen) THEN WithoutMarkup(From(t, Len(SayOpen)))
    ELSE IF StartsWith(t, SayClose) THEN WithoutMarkup(From(t, Len(SayClose)))
    ELSE <<Head(t)>> \o WithoutMarkup(Tail(t))

\* The text fed that is to be shown: every complete pair
\* <show>X</show><say>Y</say> gives its X, all other text stays.
RECURSIVE TextToShow(_)
TextToShow(t) ==
    IF DualMatches(t) = {} THEN t
    ELSE LET m == dual_stream_search(t)
         IN Slice(t, 0, m[2]) \o TextToShow(From(t, m[3] + Len(SayClose)))

\* C36: in dual-stream mode no text outside a complete pair
\* <show>X</show><say>Y</say> is discarded: when the stream has ended, the
\* texts yielded hold, in order, the X of every pair and all the text fed
\* outside the pairs (the X of an unclosed <show>X, every other residue
\* as it stands), compared without whitespace and without the tags.
C36_NothingOutsidePairsDiscarded ==
    (flushed /\ dual_stream_mode)
        => Squash(WithoutMarkup(Concat(SentenceTexts)))
               = Squash(WithoutMarkup(TextToShow(FedText)))


(***************************************************************************)
(* Claims about dicts in the transformer chain.                            *)
(***************************************************************************)
\* C38: a dict that enters the transformer chain leaves each stage
\* (actions_extractor, display_processor, tts_filter) unchanged, once, and
\* in its place among the sentences: the k-th item out of the chain is a
\* dict exactly when the k-th item the divider yielded is one, and then it
\* is that dict.
C38_DictsPassTheStages ==
    /\ Len(sentence_outputs) <= Len(emitted)
    /\ \A k \in DOMAIN sentence_outputs :
          /\ sentence_outputs[k].kind = "record"
                <=> emitted[k].item.kind = "record"
          /\ emitted[k].item.kind = "record" =>
                /\ sentence_outputs[k] = emitted[k].item
                /\ actions_extractor(emitted[k].item) = emitted[k].item
                /\ display_processor_stage(emitted[k].item) = emitted[k].item
                /\ tts_filter(emitted[k].item) = emitted[k].item
    /\ PipelineDone
          => RecordsOf(sentence_outputs) = RecordsOf(segment_stream)

\* Reached: a dict came out of the chain between two sentences.
C38_Witness ==
    /\ PipelineDone
    /\ Len(sentence_outputs) = 3
    /\ sentence_outputs[1].kind = "output"
    /\ sentence_outputs[2] = RecordItem(2)
    /\ sentence_outputs[3].kind = "output"


(***************************************************************************)
(* Specification of _merge_isolated_numbers: a list of sentences is drawn  *)
(* and the function is applied to it.  segment_stream holds the list,      *)
(* emitted the list returned.                                              *)
(***************************************************************************)
\* Longest list of sentences explored.
MaxMergeSentences == 3

MergeSentences ==
    { <<"1", ".">>, <<"2", ")">>, <<"(", "3", ")">>, <<"x">>,
      <<"a", " ", "b", ".">>, <<" ", "y">> }

\* The texts of the items of the stream.
ItemTexts == [k \in DOMAIN segment_stream |-> segment_stream[k].text]

MergeIsolatedNumbers ==
    /\ ~flushed
    /\ emitted' = merge_isolated_numbers(ItemTexts)
    /\ flushed' = TRUE
    /\ stream_index' = Len(segment_stream)
    /\ UNCHANGED <<cfgDivVars, divider_buffer, tag_stack, is_first_sentence,
                   sentence_outputs>>
    /\ UNCHANGED <<turnVars, ctlVars, rateVars, durVars, inputVars>>

InitMerge ==
    /\ TurnAtRest /\ CtlAtRest /\ RateAtRest /\ DurAtRest /\ InputAtRest
    /\ segment_stream
          \in SeqsUpTo({TextItem(s) : s \in MergeSentences}, MaxMergeSentences)
    /\ dual_stream_mode = FALSE
    /\ faster_first_response = TRUE
    /\ DividerReset

NextMerge == MergeIsolatedNumbers

SpecMerge == InitMerge /\ [][NextMerge]_vars

\* C39: _merge_isolated_numbers loses no content: every sentence of the
\* list is in the list returned, unchanged or, for an isolated enumerator,
\* put before the sentence that follows it, also when several enumerators
\* stand in a row or one stands at the end; what is returned holds every
\* character of the list but whitespace.
C39_MergeLosesNothing ==
    flushed => Squash(Concat(emitted)) = Squash(Concat(ItemTexts))


(***************************************************************************)
(* Specification of comma_splitter: a text is drawn as the buffer of the   *)
(* divider and the function is applied to it.  emitted holds the pair      *)
(* returned.                                                               *)
(***************************************************************************)
\* Longest text explored, in tokens.
MaxCommaTokens == 5

CommaTokens ==
    { <<"x">>, <<"1">>, <<",">>, <<",", " ">>, <<"2", ".", " ">> }

\* "1, 2, 3"
OneTwoThree == <<"1", ",", " ", "2", ",", " ", "3">>

\* The text of the test script with the digit sequence 1, 2, 3 in it.
ItemsOneTwoThree ==
    <<"u7B2C">> \o OneTwoThree \o <<"u9879", "u90FD", "u5F88", "u91CD", "u8981">>

\* A text with a list enumerator after an ideographic comma.
StepThenEnumerator ==
    <<"u5B8C", "u6210", "uFF0C", "1", ".", " ", "u5F00", "u59CB">>

CommaTexts ==
    { Concat(q) : q \in SeqsUpTo(CommaTokens, MaxCommaTokens) }
        \cup {OneTwoThree, ItemsOneTwoThree, StepThenEnumerator}

CommaSplitter ==
    /\ ~flushed
    /\ emitted' = comma_splitter(divider_buffer)
    /\ flushed' = TRUE
    /\ UNCHANGED <<cfgDivVars, stream_index, divider_buffer, tag_stack,
                   is_first_sentence, sentence_outputs>>
    /\ UNCHANGED <<turnVars, ctlVars, rateVars, durVars, inputVars>>

InitComma ==
    /\ TurnAtRest /\ CtlAtRest /\ RateAtRest /\ DurAtRest /\ InputAtRest
    /\ segment_stream = <<>>
    /\ stream_index = 0
    /\ dual_stream_mode = FALSE
    /\ faster_first_response = TRUE
    /\ divider_buffer \in CommaTexts
    /\ tag_stack = <<>>
    /\ is_first_sentence = TRUE
    /\ emitted = <<>>
    /\ flushed = FALSE
    /\ sentence_outputs = <<>>

NextComma == CommaSplitter

SpecComma == InitComma /\ [][NextComma]_vars

\* The comma at index pos (from 0) of the text.
IsCommaAt(text, pos) ==
    pos \in 0..(Len(text) - 1)
        /\ \E k \in DOMAIN COMMAS : text[pos + 1] = COMMAS[k]

\* A list enumerator such as "1." or "2)" stands after the comma at pos.
EnumeratorAfter(text, pos) ==
    LET rest == LStrip(From(text, pos + 1))
        d == LeadingDigits(rest)
    IN d > 0 /\ Len(rest) > d /\ rest[d + 1] \in {".", ")"}

\* The comma at pos lies inside a digit sequence: a digit stands before it
\* and a number that is no enumerator after it.
InsideDigitSequence(text, pos) ==
    /\ pos >= 1
    /\ text[pos] \in Digits
    /\ LeadingDigits(LStrip(From(text, pos + 1))) > 0
    /\ ~EnumeratorAfter(text, pos)

\* comma_splitter cut the text, at the comma at index Len(emitted[1]) - 1.
WasSplit == flushed /\ emitted[1] # divider_buffer

\* comma_splitter did not split at a comma that lies inside a digit sequence
\* such as "1, 2, 3".
NoSplitInsideDigitSequence ==
    WasSplit => ~InsideDigitSequence(divider_buffer, Len(emitted[1]) - 1)

\* comma_splitter split at a first comma that is followed by a list
\* enumerator, so that the enumerator begins the rest.
SplitBeforeEnumerator ==
    flushed =>
        \A pos \in 0..(Len(divider_buffer) - 1) :
            (/\ IsCommaAt(divider_buffer, pos)
             /\ \A q \in 0..(pos - 1) : ~IsCommaAt(divider_buffer, q)
             /\ EnumeratorAfter(divider_buffer, pos))
                => /\ emitted[1] = Strip(Slice(divider_buffer, 0, pos + 1))
                   /\ emitted[2] = Strip(From(divider_buffer, pos + 1))

\* C40: the comma splitter never splits at a comma that lies inside a digit
\* sequence such as "1, 2, 3" (digits on both sides), and it does split at
\* a comma that is followed by a list enumerator such as "1.", so that the
\* enumerator starts the next sentence.
C40_DigitSequenceKeptEnumeratorSplit ==
    NoSplitInsideDigitSequence /\ SplitBeforeEnumerator

=============================================================================
